---- MODULE Spec2Model ----
(***************************************************************************)
(* Model of lib/image-processor.mjs (extractForeground,                    *)
(* prepareForAndroidAdaptiveIcon).                                         *)
(*                                                                         *)
(* JavaScript numbers are IEEE-754 binary64.  The alpha scan of            *)
(* extractForeground accumulates testAlpha += 0.01 and compares rounded    *)
(* results, so the arithmetic is modelled bit-exactly: a Number is a       *)
(* record [s, m, e] with value s * m * 2^e, where m is a 53-bit magnitude  *)
(* held as little-endian limbs of 15 bits, and every operation rounds      *)
(* to nearest, ties to even.                                               *)
(***************************************************************************)
EXTENDS Integers, Sequences, FiniteSets, TLC

----------------------------------------------------------------------------
(* Unsigned multi-limb integers: little-endian sequences over 0..LimbBase-1,*)
(* without leading (high) zero limbs; zero is the empty sequence.          *)

LimbBits == 15

LimbBase == 2^LimbBits

\* 2^n for 0 <= n <= LimbBits
Pow2(n) ==
  <<1, 2, 4, 8, 16, 32, 64, 128, 256, 512, 1024, 2048, 4096, 8192, 16384,
    32768>>[n + 1]

Abs(x) == IF x < 0 THEN -x ELSE x

Max2(x, y) == IF x > y THEN x ELSE y

Min2(x, y) == IF x < y THEN x ELSE y

RECURSIVE BNorm(_)
BNorm(a) ==
  IF a = <<>> THEN <<>>
  ELSE IF a[Len(a)] = 0 THEN BNorm(SubSeq(a, 1, Len(a) - 1)) ELSE a

BFromInt(n) ==
  IF n = 0 THEN <<>>
  ELSE IF n < LimbBase THEN <<n>>
  ELSE <<n % LimbBase, n \div LimbBase>>

BToInt(a) ==
  IF Len(a) = 0 THEN 0
  ELSE IF Len(a) = 1 THEN a[1]
  ELSE a[1] + LimbBase * a[2]

Limb(a, i) == IF i <= Len(a) THEN a[i] ELSE 0

RECURSIVE BAddFrom(_, _, _, _)
BAddFrom(a, b, i, t) ==
  \* limbs i.. of a + b, t is the sum at limb i - 1 (its carry is t \div LimbBase)
  IF i > Len(a) /\ i > Len(b)
    THEN (IF t < LimbBase THEN <<>> ELSE <<1>>)
    ELSE <<(Limb(a, i) + Limb(b, i) + t \div LimbBase) % LimbBase>>
         \o BAddFrom(a, b, i + 1, Limb(a, i) + Limb(b, i) + t \div LimbBase)

BAdd(a, b) == BAddFrom(a, b, 1, 0)

RECURSIVE BSubFrom(_, _, _, _)
BSubFrom(a, b, i, t) ==
  \* limbs i.. of a - b, t is the difference at limb i - 1 (negative: borrow)
  IF i > Len(a) THEN <<>>
  ELSE <<(Limb(a, i) - Limb(b, i) - (IF t < 0 THEN 1 ELSE 0)) % LimbBase>>
       \o BSubFrom(a, b, i + 1, Limb(a, i) - Limb(b, i) - (IF t < 0 THEN 1 ELSE 0))

\* a - b, for a >= b
BSub(a, b) == BNorm(BSubFrom(a, b, 1, 0))

RECURSIVE BCmpFrom(_, _, _)
BCmpFrom(a, b, i) ==
  IF i = 0 THEN 0
  ELSE IF a[i] > b[i] THEN 1
  ELSE IF a[i] < b[i] THEN -1
  ELSE BCmpFrom(a, b, i - 1)

\* -1, 0, 1 as a < b, a = b, a > b
BCmp(a, b) ==
  IF Len(a) > Len(b) THEN 1
  ELSE IF Len(a) < Len(b) THEN -1
  ELSE BCmpFrom(a, b, Len(a))

RECURSIVE BMulFrom(_, _, _, _)
BMulFrom(a, k, i, carry) ==
  IF i > Len(a) THEN (IF carry = 0 THEN <<>> ELSE <<carry>>)
  ELSE <<(a[i] * k + carry) % LimbBase>>
       \o BMulFrom(a, k, i + 1, (a[i] * k + carry) \div LimbBase)

\* a * k, for 0 <= k < LimbBase
BMulSmall(a, k) == IF k = 0 THEN <<>> ELSE BMulFrom(a, k, 1, 0)

\* number of significant bits of a limb
BitLenLimb(x) ==
  IF x < 256
    THEN (IF x < 16
            THEN (IF x < 4 THEN (IF x < 2 THEN x ELSE 2)
                           ELSE (IF x < 8 THEN 3 ELSE 4))
            ELSE (IF x < 64 THEN (IF x < 32 THEN 5 ELSE 6)
                            ELSE (IF x < 128 THEN 7 ELSE 8)))
    ELSE (IF x < 4096
            THEN (IF x < 1024 THEN (IF x < 512 THEN 9 ELSE 10)
                              ELSE (IF x < 2048 THEN 11 ELSE 12))
            ELSE (IF x < 16384 THEN (IF x < 8192 THEN 13 ELSE 14)
                               ELSE 15))

\* number of significant bits of a
BitLen(a) ==
  IF a = <<>> THEN 0 ELSE LimbBits * (Len(a) - 1) + BitLenLimb(a[Len(a)])

Zeros(n) == [i \in 1..n |-> 0]

\* a * 2^n
BShl(a, n) ==
  IF a = <<>> THEN <<>>
  ELSE Zeros(n \div LimbBits) \o BMulSmall(a, Pow2(n % LimbBits))

RECURSIVE BShrBits(_, _, _, _)
BShrBits(a, k, i, high) ==
  \* limbs i..1 of a shifted right by k < LimbBits bits; high is limb i+1
  IF i = 0 THEN <<>>
  ELSE BShrBits(a, k, i - 1, a[i])
       \o <<(a[i] \div Pow2(k)) + (high % Pow2(k)) * Pow2(LimbBits - k)>>

BShrLimbs(b, k) == BNorm(BShrBits(b, k, Len(b), 0))

\* floor(a / 2^n)
BShr(a, n) ==
  IF n \div LimbBits >= Len(a) THEN <<>>
  ELSE BShrLimbs(SubSeq(a, (n \div LimbBits) + 1, Len(a)), n % LimbBits)

\* a mod 2^n
BLow(a, n) ==
  IF n \div LimbBits >= Len(a) THEN a
  ELSE BNorm(SubSeq(a, 1, n \div LimbBits)
             \o <<a[(n \div LimbBits) + 1] % Pow2(n % LimbBits)>>)

IsOdd(a) == a # <<>> /\ a[1] % 2 = 1

RECURSIVE BMulAcc(_, _, _)
BMulAcc(a, b, i) ==
  IF i > Len(b) THEN <<>>
  ELSE IF b[i] = 0 THEN BMulAcc(a, b, i + 1)
  ELSE BAdd(Zeros(i - 1) \o BMulSmall(a, b[i]), BMulAcc(a, b, i + 1))

\* a * b
BMul(a, b) == IF a = <<>> \/ b = <<>> THEN <<>> ELSE BMulAcc(a, b, 1)

RECURSIVE FixDigit(_, _, _)
FixDigit(R, D, qhat) ==
  IF qhat > 0 /\ BCmp(BMulSmall(D, qhat), R) > 0
    THEN FixDigit(R, D, qhat - 1) ELSE qhat

\* one digit of the long division: floor(R / D), for R < D * LimbBase and
\* the top limb of D at least LimbBase / 2
DivDigit(R, D) ==
  IF Len(R) < Len(D) THEN 0
  ELSE FixDigit(R, D,
         Min2((Limb(R, Len(D) + 1) * LimbBase + R[Len(D)]) \div D[Len(D)],
              LimbBase - 1))

RECURSIVE BDivFrom(_, _, _, _)

BDivCons(dig, rest) == [q |-> rest.q \o <<dig>>, r |-> rest.r]

BDivStep(N, D, i, R, dig) ==
  BDivCons(dig, BDivFrom(N, D, i - 1,
                         IF dig = 0 THEN R ELSE BSub(R, BMulSmall(D, dig))))

BDivLimb(N, D, i, R) == BDivStep(N, D, i, R, DivDigit(R, D))

\* long division of limbs i..1 of N by D, R is the remainder so far
BDivFrom(N, D, i, R) ==
  IF i = 0 THEN [q |-> <<>>, r |-> R]
  ELSE BDivLimb(N, D, i, BNorm(<<N[i]>> \o R))

BDivResult(res) == [q |-> BNorm(res.q), r |-> res.r # <<>>]

BDivNormalized(N, D) == BDivResult(BDivFrom(N, D, Len(N), <<>>))

\* [q |-> floor(N / D), r |-> TRUE iff the division leaves a remainder], D # 0
BDivMod(N, D) ==
  BDivNormalized(BShl(N, LimbBits * Len(D) - BitLen(D)),
                 BShl(D, LimbBits * Len(D) - BitLen(D)))

----------------------------------------------------------------------------
(* IEEE-754 binary64 numbers: [inf, s, m, e] is s * m * 2^e; m = <<>> is   *)
(* zero, otherwise m has exactly MantBits bits.  The values the program    *)
(* computes stay far from the subnormal and the overflow range.            *)

MantBits == 53

FZero == [inf |-> FALSE, s |-> 1, m |-> <<>>, e |-> 0]

Infinity == [inf |-> TRUE, s |-> 1, m |-> <<>>, e |-> 0]

Finite(s, m, e) == [inf |-> FALSE, s |-> s, m |-> m, e |-> e]

\* q rounded up by one unit may reach 2^MantBits
RoundCarry(s, q, e) ==
  IF BitLen(q) > MantBits THEN Finite(s, BShr(q, 1), e + 1) ELSE Finite(s, q, e)

\* q is the kept part; c compares the dropped part with half a unit of q
RoundCut(s, q, e, c, sticky) ==
  IF c > 0 \/ (c = 0 /\ (sticky \/ IsOdd(q)))
    THEN RoundCarry(s, BAdd(q, <<1>>), e)
    ELSE Finite(s, q, e)

RoundLen(s, M, e, sticky, L) ==
  IF L = 0 THEN FZero
  ELSE IF L <= MantBits THEN Finite(s, BShl(M, MantBits - L), e - (MantBits - L))
  ELSE RoundCut(s, BShr(M, L - MantBits), e + (L - MantBits),
                BCmp(BLow(M, L - MantBits), BShl(<<1>>, L - MantBits - 1)),
                sticky)

\* s * M * 2^e (plus a positive amount below one unit of M when sticky),
\* rounded to nearest, ties to even
RoundTo53(s, M, e, sticky) == RoundLen(s, M, e, sticky, BitLen(M))

\* the Number of an integer literal or of a byte read from a buffer
FInt(n) == RoundTo53(IF n < 0 THEN -1 ELSE 1, BFromInt(IF n < 0 THEN -n ELSE n), 0, FALSE)

FNeg(x) == [x EXCEPT !.s = -x.s]

FAbs(x) == [x EXCEPT !.s = 1]

\* sx * X + sy * Y in units of 2^e, c compares X with Y
FAddSigned(sx, X, sy, Y, e, c) ==
  IF sx = sy THEN RoundTo53(sx, BAdd(X, Y), e, FALSE)
  ELSE IF c = 0 THEN FZero
  ELSE RoundTo53(IF c > 0 THEN sx ELSE sy,
                 IF c > 0 THEN BSub(X, Y) ELSE BSub(Y, X), e, FALSE)

FAddAligned(sx, X, sy, Y, e) == FAddSigned(sx, X, sy, Y, e, BCmp(X, Y))

\* x + y
FAdd(x, y) ==
  IF x.m = <<>> THEN y
  ELSE IF y.m = <<>> THEN x
  ELSE FAddAligned(x.s, BShl(x.m, x.e - Min2(x.e, y.e)),
                   y.s, BShl(y.m, y.e - Min2(x.e, y.e)), Min2(x.e, y.e))

\* x - y
FSub(x, y) == FAdd(x, FNeg(y))

\* x * y
FMul(x, y) ==
  IF x.m = <<>> \/ y.m = <<>> THEN FZero
  ELSE RoundTo53(x.s * y.s, BMul(x.m, y.m), x.e + y.e, FALSE)

DivGuard == MantBits + 3

FDivRound(s, d, e) == RoundTo53(s, d.q, e, d.r)

\* x / y, y # 0
FDiv(x, y) ==
  IF x.m = <<>> THEN FZero
  ELSE FDivRound(x.s * y.s, BDivMod(BShl(x.m, DivGuard), y.m),
                 x.e - y.e - DivGuard)

\* -1, 0, 1 as |x| < |y|, |x| = |y|, |x| > |y|, for finite x, y
FCmpMag(x, y) ==
  IF x.m = <<>> THEN (IF y.m = <<>> THEN 0 ELSE -1)
  ELSE IF y.m = <<>> THEN 1
  ELSE IF x.e > y.e THEN 1
  ELSE IF x.e < y.e THEN -1
  ELSE BCmp(x.m, y.m)

\* x < y
FLt(x, y) ==
  IF x.inf THEN FALSE
  ELSE IF y.inf THEN TRUE
  ELSE IF x.m = <<>> THEN y.m # <<>> /\ y.s = 1
  ELSE IF y.m = <<>> THEN x.s = -1
  ELSE IF x.s # y.s THEN x.s = -1
  ELSE IF x.s = 1 THEN FCmpMag(x, y) < 0
  ELSE FCmpMag(x, y) > 0

\* x <= y
FLe(x, y) == ~FLt(y, x)

FMax(x, y) == IF FLt(x, y) THEN y ELSE x

\* ceil(t / 2^n)
BCeilShr(t, n) ==
  IF BLow(t, n) = <<>> THEN BToInt(BShr(t, n)) ELSE BToInt(BShr(t, n)) + 1

\* floor((s * m + 2^r) / 2^(r + 1))
RoundHalfUp(s, m, r, half) ==
  IF s = 1 THEN BToInt(BShr(BAdd(m, half), r + 1))
  ELSE IF BCmp(m, half) <= 0 THEN 0
  ELSE -BCeilShr(BSub(m, half), r + 1)

\* Math.round: floor(x + 0.5), exactly; |x| < 2^29
MathRound(x) ==
  IF x.m = <<>> THEN 0
  ELSE IF x.e >= 0 THEN x.s * BToInt(BShl(x.m, x.e))
  ELSE RoundHalfUp(x.s, x.m, -(x.e + 1), BShl(<<1>>, -(x.e + 1)))

----------------------------------------------------------------------------
(* extractForeground (lib/image-processor.mjs)                             *)

\* bounds of the decoded images
MaxWidth == 2

MaxHeight == 2

\* bounds of the images of the runs that invoke extractForeground twice
TwiceWidth == 2

TwiceHeight == 1

\* Pixel pairs the input images are assembled from: the full pixel and the
\* background pixel at the same position, as <<R, G, B, A>>.
Samples ==
  << [full |-> <<10, 20, 30, 255>>,     bg |-> <<10, 20, 30, 255>>],
     [full |-> <<10, 20, 30, 255>>,     bg |-> <<10, 20, 30, 250>>],
     [full |-> <<14, 24, 34, 255>>,     bg |-> <<10, 20, 30, 251>>],
     [full |-> <<15, 20, 30, 255>>,     bg |-> <<10, 20, 30, 255>>],
     [full |-> <<255, 255, 255, 255>>,  bg |-> <<0, 0, 0, 255>>],
     [full |-> <<231, 126, 239, 220>>,  bg |-> <<27, 72, 252, 184>>],
     [full |-> <<255, 40, 7, 255>>,     bg |-> <<0, 50, 9, 255>>],
     [full |-> <<100, 100, 100, 255>>,  bg |-> <<104, 100, 100, 255>>],
     [full |-> <<110, 100, 100, 255>>,  bg |-> <<100, 100, 100, 255>>],
     [full |-> <<222, 132, 162, 255>>,  bg |-> <<255, 255, 255, 255>>],
     [full |-> <<106, 99, 81, 84>>,     bg |-> <<82, 75, 61, 226>>],
     [full |-> <<222, 173, 182, 255>>,  bg |-> <<255, 255, 255, 255>>],
     [full |-> <<255, 0, 255, 255>>,    bg |-> <<254, 1, 254, 250>>],
     [full |-> <<209, 233, 169, 255>>,  bg |-> <<206, 5, 13, 255>>] >>

NumSamples == Len(Samples)

\* An image pair is a walk over Samples: it starts at sample k (from 0) and
\* advances by s samples per pixel.
Offsets == 0..(NumSamples - 1)

Strides == {1, 2}

\* the image pairs of the runs that invoke extractForeground twice
TwiceOffsets == 2..3

Pattern(k, s, j) == Samples[((k + j * s) % NumSamples) + 1]

channels == 4

\* a threshold one too high
thresholdLoose == 5 + 1

threshold == 5

\* raw RGBA bytes of n pixels, as full.ensureAlpha().raw().toBuffer() yields
FullBytes(k, s, n) ==
  [b \in 1..(n * channels) |->
     Pattern(k, s, (b - 1) \div channels).full[((b - 1) % channels) + 1]]

BgBytes(k, s, n) ==
  [b \in 1..(n * channels) |->
     Pattern(k, s, (b - 1) \div channels).bg[((b - 1) % channels) + 1]]

VARIABLES
  fullMeta, bgMeta,        \* metadata of the two input images
  fullBuffer, bgBuffer,    \* raw RGBA bytes of the two input images
  outputBuffer,            \* Buffer.alloc(width * height * channels)
  i,                       \* byte offset of the pixel loop
  pc,                      \* position in extractForeground
  maxAbsDiff, bestAlpha, bestError, bestFg, testAlpha, error,
                           \* locals of the search branch
  outFile,                 \* the image written to outputPath, or NoFile
  thrown,                  \* the error extractForeground threw, or NoError
  nTested,                 \* history: candidates evaluated for the pixel at i
  assigned,                \* history: number of writes to each output pixel
  run,                     \* 1 or 2: which invocation this is
  prev                     \* inputs and output of the first invocation

\* state of prepareForAndroidAdaptiveIcon
VARIABLES
  metadata,                \* metadata of the input image
  scale, scaledWidth, scaledHeight, left, top,
                           \* locals of prepareForAndroidAdaptiveIcon
  padded,                  \* the image written to outputPath, or NoFile
  ppc                      \* position in prepareForAndroidAdaptiveIcon

extractVars == <<fullMeta, bgMeta, fullBuffer, bgBuffer, outputBuffer, i, pc,
                 maxAbsDiff, bestAlpha, bestError, bestFg, testAlpha, error,
                 outFile, thrown, nTested, assigned, run, prev>>

prepareVars == <<metadata, scale, scaledWidth, scaledHeight, left, top,
                 padded, ppc>>

\* state of the command-line program (convert-icon.mjs)
VARIABLES
  args,                    \* process.argv.slice(2)
  iconFolder, outputDir,   \* locals of main
  originalIconData,        \* the parsed icon.json
  created,                 \* the files and directories written so far
  jsonWrites,              \* the icon.json files written: folder and data
  trace,                   \* history: the awaited operations and outcomes
  usagePrinted,            \* the usage text went to stderr
  exitCode,                \* the exit status, or Running
  mpc                      \* position in main and convertIcon

mainVars == <<args, iconFolder, outputDir, originalIconData, created,
              jsonWrites, trace, usagePrinted, exitCode, mpc>>

\* state of a call of exportImage (lib/ictool-wrapper.mjs)
VARIABLES
  promise,                 \* the promise exportImage returns
  reason,                  \* what the promise was rejected with
  stderr,                  \* the chunks appended to stderr so far
  events,                  \* history: the events of the child process
  settlements,             \* history: how often the promise changed state
  xpc                      \* position in exportImage

exportVars == <<promise, reason, stderr, events, settlements, xpc>>

\* state of a call of generateBackgroundDrawableFromIcon
\* (lib/android-resources.mjs)
VARIABLES
  icon,                    \* the argument iconData
  fill,                    \* the fill of the default appearance
  topColor,                \* the colour of the top of the gradient
  bottomColor,             \* the colour of the bottom of the gradient
  topColorData,            \* what samplePixelColor returned
  topColorHex,             \* the hex string of topColor
  bottomColorHex,          \* the hex string of bottomColor
  rejection,               \* the error the call was rejected with
  written,                 \* the colours of the drawable XML written
  dpc                      \* position in generateBackgroundDrawableFromIcon

drawableVars == <<icon, fill, topColor, bottomColor, topColorData,
                  topColorHex, bottomColorHex, rejection, written, dpc>>

\* the functions called by convertIcon that are modelled on their own
libVars == <<exportVars, drawableVars>>

\* what a run of extractForeground alone leaves untouched
outerVars == <<prepareVars, mainVars, libVars>>

vars == <<extractVars, outerVars>>

NoFile == [written |-> FALSE]

NoError == [raised |-> FALSE]

NoRun == [ran |-> FALSE]

\* prepareForAndroidAdaptiveIcon is not running
PrepareIdle ==
  /\ metadata = [width |-> 0, height |-> 0]
  /\ scale = FZero
  /\ scaledWidth = 0
  /\ scaledHeight = 0
  /\ left = 0
  /\ top = 0
  /\ padded = NoFile
  /\ ppc = "idle"

Running == -1

NoPath == <<>>

NoData == [read |-> FALSE]

\* the command-line program is not running
MainIdle ==
  /\ args = <<>>
  /\ iconFolder = NoPath
  /\ outputDir = NoPath
  /\ originalIconData = NoData
  /\ created = {}
  /\ jsonWrites = {}
  /\ trace = <<>>
  /\ usagePrinted = FALSE
  /\ exitCode = Running
  /\ mpc = "idle"

NoReason == [kind |-> "none", code |-> 0, stderr |-> <<>>]

\* exportImage is not running
ExportIdle ==
  /\ promise = "none"
  /\ reason = NoReason
  /\ stderr = <<>>
  /\ events = <<>>
  /\ settlements = 0
  /\ xpc = "idle"

\* a JavaScript number: v is its value, nan says that it is NaN
Num(n) == [nan |-> FALSE, v |-> n]

NaN == [nan |-> TRUE, v |-> 0]

\* { r, g, b }
Colour(r, g, b) == [def |-> TRUE, r |-> r, g |-> g, b |-> b]

\* null, and the value of a variable that was never assigned
NoColour == [def |-> FALSE, r |-> NaN, g |-> NaN, b |-> NaN]

\* a value of the fill property: undefined, a string (text), or an object
\* with the one key (key) whose value is the array list or else the value
\* colour
Fill(type, text, key, array, list, colour) ==
  [type |-> type, text |-> text, key |-> key, array |-> array,
   list |-> list, colour |-> colour]

\* the string ''
EmptyString ==
  [string |-> TRUE, empty |-> TRUE, parts |-> 1, space |-> "", values |-> <<>>]

NoFill == Fill("undefined", "", "", FALSE, <<>>, EmptyString)

NoIcon == [specializations |-> FALSE, list |-> <<>>, fill |-> NoFill]

\* generateBackgroundDrawableFromIcon is not running
DrawableIdle ==
  /\ icon = NoIcon
  /\ fill = NoFill
  /\ topColor = NoColour
  /\ bottomColor = NoColour
  /\ topColorData = NoColour
  /\ topColorHex = <<>>
  /\ bottomColorHex = <<>>
  /\ rejection = ""
  /\ written = <<>>
  /\ dpc = "idle"

LibIdle == ExportIdle /\ DrawableIdle

OuterIdle == PrepareIdle /\ MainIdle /\ LibIdle

\* buf[j] for a zero-based byte offset j
Byte(buf, j) == buf[j + 1]

\* a step of 0.001
alphaStepFine == FDiv(FInt(1), FInt(1000))

\* the Number literals 0.01 and 0.1
alphaStep == FDiv(FInt(1), FInt(100))

\* the scan stops at the first candidate with an error below 100
perfectErrorLoose == FInt(100)

perfectError == FDiv(FInt(1), FInt(10))

\* const maxDiff = Math.max(diffR, diffG, diffB, diffA)
MaxDiff(full, bg, j) ==
  Max2(Max2(Abs(Byte(full, j) - Byte(bg, j)),
            Abs(Byte(full, j + 1) - Byte(bg, j + 1))),
       Max2(Abs(Byte(full, j + 2) - Byte(bg, j + 2)),
            Abs(Byte(full, j + 3) - Byte(bg, j + 3))))

\* the alpha difference is taken into maxAbsDiff too
MaxAbsDiffWithAlpha(full, bg, j) ==
  Max2(Max2(Abs(Byte(full, j) - Byte(bg, j)),
            Abs(Byte(full, j + 1) - Byte(bg, j + 1))),
       Max2(Abs(Byte(full, j + 2) - Byte(bg, j + 2)),
            Abs(Byte(full, j + 3) - Byte(bg, j + 3))))

\* const maxAbsDiff = Math.max(|signedDiffR|, |signedDiffG|, |signedDiffB|)
MaxAbsDiff(full, bg, j) ==
  Max2(Max2(Abs(Byte(full, j) - Byte(bg, j)),
            Abs(Byte(full, j + 1) - Byte(bg, j + 1))),
       Abs(Byte(full, j + 2) - Byte(bg, j + 2)))

\* the scan starts at 0.01 whatever the pixel's difference is
StartAlphaFloor(d) == alphaStep

\* Math.max(0.01, minAlpha), minAlpha = maxAbsDiff / 255
StartAlpha(d) == FMax(alphaStep, FDiv(FInt(d), FInt(255)))

\* the division by testAlpha is left out
TestFgUnscaled(f, b, t) ==
  FSub(FInt(f), FMul(FSub(FInt(1), t), FInt(b)))

\* testFg = (full - (1 - testAlpha) * bg) / testAlpha
TestFg(f, b, t) ==
  FDiv(FSub(FInt(f), FMul(FSub(FInt(1), t), FInt(b))), t)

\* the upper clamp is missing
ClampedNoUpper(x) == Max2(0, MathRound(x))

\* Math.max(0, Math.min(255, Math.round(testFg)))
Clamped(x) == Max2(0, Min2(255, MathRound(x)))

\* recomposed = testAlpha * clampedFg + (1 - testAlpha) * bg
Recomposed(c, b, t) ==
  FAdd(FMul(t, FInt(c)), FMul(FSub(FInt(1), t), FInt(b)))

\* |recomposed - full| of one channel for the clamped colour c
ChannelError(c, f, b, t) == FAbs(FSub(Recomposed(c, b, t), FInt(f)))

CandidateOf(full, bg, j, t, cR, cG, cB) ==
  [fg |-> <<cR, cG, cB>>,
   error |-> FAdd(FAdd(ChannelError(cR, Byte(full, j), Byte(bg, j), t),
                       ChannelError(cG, Byte(full, j + 1), Byte(bg, j + 1), t)),
                  ChannelError(cB, Byte(full, j + 2), Byte(bg, j + 2), t))]

\* one candidate of the scan for the pixel at byte offset j: the clamped
\* foreground colour and the reconstruction error
Candidate(full, bg, j, t) ==
  CandidateOf(full, bg, j, t,
              Clamped(TestFg(Byte(full, j), Byte(bg, j), t)),
              Clamped(TestFg(Byte(full, j + 1), Byte(bg, j + 1), t)),
              Clamped(TestFg(Byte(full, j + 2), Byte(bg, j + 2), t)))

\* outputBuffer[j .. j+3] = p
WritePixel(buf, j, p) ==
  [b \in 1..Len(buf) |-> IF b > j /\ b <= j + channels THEN p[b - j] ELSE buf[b]]

PixelAt(buf, j) == <<Byte(buf, j), Byte(buf, j + 1), Byte(buf, j + 2), Byte(buf, j + 3)>>

\* the state before extractForeground runs on an image pair out of the
\* given offsets and strides
InitWith(w, h, offsets, strides) ==
  \E fw \in 1..w, fh \in 1..h, bw \in 1..w, bh \in 1..h,
     k \in offsets, s \in strides :
    /\ fullMeta = [width |-> fw, height |-> fh]
    /\ bgMeta = [width |-> bw, height |-> bh]
    /\ fullBuffer = FullBytes(k, s, fw * fh)
    /\ bgBuffer = BgBytes(k, s, bw * bh)
    /\ outputBuffer = <<>>
    /\ i = 0
    /\ pc = "start"
    /\ maxAbsDiff = 0
    /\ bestAlpha = FZero
    /\ bestError = Infinity
    /\ bestFg = <<0, 0, 0>>
    /\ testAlpha = FZero
    /\ error = FZero
    /\ outFile = NoFile
    /\ thrown = NoError
    /\ nTested = 0
    /\ assigned = <<>>
    /\ run = 1
    /\ prev = NoRun

Init == InitWith(MaxWidth, MaxHeight, Offsets, Strides) /\ OuterIdle

\* the heights are not compared
SizeDiffersWidthOnly == fullMeta.width # bgMeta.width

\* line 30: fullMeta.width !== bgMeta.width || fullMeta.height !== bgMeta.height
SizeDiffers ==
  fullMeta.width # bgMeta.width \/ fullMeta.height # bgMeta.height

\* lines 26-32: the metadata of the two images differ
SizeMismatch ==
  /\ pc = "start"
  /\ SizeDiffers
  /\ thrown' = [raised |-> TRUE, full |-> fullMeta, background |-> bgMeta]
  /\ pc' = "failed"
  /\ UNCHANGED <<fullMeta, bgMeta, fullBuffer, bgBuffer, outputBuffer, i,
                 maxAbsDiff, bestAlpha, bestError, bestFg, testAlpha, error,
                 outFile, nTested, assigned, run, prev>>
  /\ UNCHANGED outerVars

\* lines 30-48: the sizes agree, the output buffer is allocated zero-filled
AllocOutput ==
  /\ pc = "start"
  /\ ~SizeDiffers
  /\ outputBuffer' = Zeros(fullMeta.width * fullMeta.height * channels)
  /\ assigned' = Zeros(fullMeta.width * fullMeta.height)
  /\ i' = 0
  /\ pc' = "loop"
  /\ UNCHANGED <<fullMeta, bgMeta, fullBuffer, bgBuffer,
                 maxAbsDiff, bestAlpha, bestError, bestFg, testAlpha, error,
                 outFile, thrown, nTested, run, prev>>
  /\ UNCHANGED outerVars

\* the loop stops one pixel early
LoopContinuesShort == i < Len(fullBuffer) - channels

\* line 48: i < fullBuffer.length
LoopContinues == i < Len(fullBuffer)

\* lines 48-74: the pixel at i is within the threshold in all four channels
IdentityPixel ==
  /\ pc = "loop"
  /\ LoopContinues
  /\ MaxDiff(fullBuffer, bgBuffer, i) < threshold
  /\ outputBuffer' = WritePixel(outputBuffer, i, <<0, 0, 0, 0>>)
  /\ assigned' = [assigned EXCEPT ![(i \div channels) + 1] = @ + 1]
  /\ i' = i + channels
  /\ UNCHANGED <<fullMeta, bgMeta, fullBuffer, bgBuffer, pc,
                 maxAbsDiff, bestAlpha, bestError, bestFg, testAlpha, error,
                 outFile, thrown, nTested, run, prev>>
  /\ UNCHANGED outerVars

\* bestError is declared outside the pixel loop and keeps its last value
BeginSearchStale ==
  /\ pc = "loop"
  /\ LoopContinues
  /\ ~(MaxDiff(fullBuffer, bgBuffer, i) < threshold)
  /\ maxAbsDiff' = MaxAbsDiff(fullBuffer, bgBuffer, i)
  /\ bestAlpha' = StartAlpha(maxAbsDiff')
  /\ bestFg' = <<0, 0, 0>>
  /\ testAlpha' = bestAlpha'
  /\ nTested' = 0
  /\ pc' = "scan"
  /\ UNCHANGED <<fullMeta, bgMeta, fullBuffer, bgBuffer, outputBuffer, i,
                 bestError, error, outFile, thrown, assigned, run, prev>>
  /\ UNCHANGED outerVars

\* lines 74-100: the pixel at i has foreground content; the search starts
BeginSearch ==
  /\ pc = "loop"
  /\ LoopContinues
  /\ ~(MaxDiff(fullBuffer, bgBuffer, i) < threshold)
  /\ maxAbsDiff' = MaxAbsDiff(fullBuffer, bgBuffer, i)
  /\ bestAlpha' = StartAlpha(maxAbsDiff')
  /\ bestError' = Infinity
  /\ bestFg' = <<0, 0, 0>>
  /\ testAlpha' = bestAlpha'
  /\ nTested' = 0
  /\ pc' = "scan"
  /\ UNCHANGED <<fullMeta, bgMeta, fullBuffer, bgBuffer, outputBuffer, i,
                 error, outFile, thrown, assigned, run, prev>>
  /\ UNCHANGED outerVars

\* <= in place of <
TrackBestOrEqual(c) ==
  IF FLe(c.error, bestError)
    THEN /\ bestError' = c.error
         /\ bestAlpha' = testAlpha
         /\ bestFg' = c.fg
    ELSE UNCHANGED <<bestError, bestAlpha, bestFg>>

\* the candidate replaces the best one without the comparison
TrackBestLatest(c) ==
  /\ bestError' = c.error
  /\ bestAlpha' = testAlpha
  /\ bestFg' = c.fg

\* bestAlpha is assigned outside the if
TrackBestAlphaAlways(c) ==
  /\ bestAlpha' = testAlpha
  /\ IF FLt(c.error, bestError)
       THEN /\ bestError' = c.error
            /\ bestFg' = c.fg
       ELSE UNCHANGED <<bestError, bestFg>>

\* lines 123-129: if (error < bestError) { best... = ... }
TrackBest(c) ==
  IF FLt(c.error, bestError)
    THEN /\ bestError' = c.error
         /\ bestAlpha' = testAlpha
         /\ bestFg' = c.fg
    ELSE UNCHANGED <<bestError, bestAlpha, bestFg>>

\* the break of line 132 is missing: the scan goes on after a candidate
\* with an error below 0.1
ScanCandidateNoBreak ==
  /\ pc = "scan"
  /\ FLe(testAlpha, FInt(1))
  /\ \E c \in {Candidate(fullBuffer, bgBuffer, i, testAlpha)} :
       /\ error' = c.error
       /\ TrackBest(c)
  /\ pc' = "scan"
  /\ testAlpha' = FAdd(testAlpha, alphaStep)
  /\ nTested' = nTested + 1
  /\ UNCHANGED <<fullMeta, bgMeta, fullBuffer, bgBuffer, outputBuffer, i,
                 maxAbsDiff, outFile, thrown, assigned, run, prev>>
  /\ UNCHANGED outerVars

\* lines 100-133: one iteration of the alpha scan
ScanCandidate ==
  /\ pc = "scan"
  /\ FLe(testAlpha, FInt(1))
  /\ \E c \in {Candidate(fullBuffer, bgBuffer, i, testAlpha)} :
       /\ error' = c.error
       /\ TrackBest(c)
       /\ IF FLt(c.error, perfectError)
            THEN /\ pc' = "emit"
                 /\ UNCHANGED testAlpha
            ELSE /\ pc' = "scan"
                 /\ testAlpha' = FAdd(testAlpha, alphaStep)
  /\ nTested' = nTested + 1
  /\ UNCHANGED <<fullMeta, bgMeta, fullBuffer, bgBuffer, outputBuffer, i,
                 maxAbsDiff, outFile, thrown, assigned, run, prev>>
  /\ UNCHANGED outerVars

\* line 100: the loop condition testAlpha <= 1.0 fails
ScanEnd ==
  /\ pc = "scan"
  /\ ~FLe(testAlpha, FInt(1))
  /\ pc' = "emit"
  /\ UNCHANGED <<fullMeta, bgMeta, fullBuffer, bgBuffer, outputBuffer, i,
                 maxAbsDiff, bestAlpha, bestError, bestFg, testAlpha, error,
                 outFile, thrown, nTested, assigned, run, prev>>
  /\ UNCHANGED outerVars

\* || in place of &&
IsNoiseEither == FLt(FInt(30), bestError) \/ maxAbsDiff < 15

\* line 136: bestError > 30 && maxAbsDiff < 15
IsNoise == FLt(FInt(30), bestError) /\ maxAbsDiff < 15

\* lines 135-147: the pixel is stored, transparent if it is taken for noise,
\* and the pixel loop advances
EmitPixel ==
  /\ pc = "emit"
  /\ outputBuffer' =
       WritePixel(outputBuffer, i,
                  IF IsNoise THEN <<0, 0, 0, 0>>
                  ELSE <<bestFg[1], bestFg[2], bestFg[3],
                         MathRound(FMul(bestAlpha, FInt(255)))>>)
  /\ assigned' = [assigned EXCEPT ![(i \div channels) + 1] = @ + 1]
  /\ i' = i + channels
  /\ pc' = "loop"
  /\ UNCHANGED <<fullMeta, bgMeta, fullBuffer, bgBuffer,
                 maxAbsDiff, bestAlpha, bestError, bestFg, testAlpha, error,
                 outFile, thrown, nTested, run, prev>>
  /\ UNCHANGED outerVars

\* lines 48, 150-159: the pixel loop is over, the PNG is written
WriteOutput ==
  /\ pc = "loop"
  /\ ~LoopContinues
  /\ outFile' = [written |-> TRUE, width |-> fullMeta.width,
                 height |-> fullMeta.height, channels |-> 4,
                 data |-> outputBuffer]
  /\ pc' = "done"
  /\ UNCHANGED <<fullMeta, bgMeta, fullBuffer, bgBuffer, outputBuffer, i,
                 maxAbsDiff, bestAlpha, bestError, bestFg, testAlpha, error,
                 thrown, nTested, assigned, run, prev>>
  /\ UNCHANGED outerVars

Next ==
  \/ SizeMismatch
  \/ AllocOutput
  \/ IdentityPixel
  \/ BeginSearch
  \/ ScanCandidate
  \/ ScanEnd
  \/ EmitPixel
  \/ WriteOutput

Spec == Init /\ [][Next]_vars

----------------------------------------------------------------------------
(* Two invocations of extractForeground in a row, the second on any image  *)
(* pair, the same one included.  The locals of the first invocation are    *)
(* left as they were: a new invocation declares its own.                   *)

InitTwice ==
  InitWith(TwiceWidth, TwiceHeight, TwiceOffsets, Strides) /\ OuterIdle

InvokeAgain ==
  /\ pc = "done"
  /\ run = 1
  /\ \E fw \in 1..TwiceWidth, fh \in 1..TwiceHeight,
        bw \in 1..TwiceWidth, bh \in 1..TwiceHeight,
        k \in TwiceOffsets, s \in Strides :
       /\ fullMeta' = [width |-> fw, height |-> fh]
       /\ bgMeta' = [width |-> bw, height |-> bh]
       /\ fullBuffer' = FullBytes(k, s, fw * fh)
       /\ bgBuffer' = BgBytes(k, s, bw * bh)
  /\ prev' = [ran |-> TRUE, fullMeta |-> fullMeta, bgMeta |-> bgMeta,
              full |-> fullBuffer, bg |-> bgBuffer, out |-> outFile]
  /\ run' = 2
  /\ pc' = "start"
  /\ i' = 0
  /\ outputBuffer' = <<>>
  /\ assigned' = <<>>
  /\ outFile' = NoFile
  /\ UNCHANGED <<maxAbsDiff, bestAlpha, bestError, bestFg, testAlpha, error,
                 thrown, nTested>>
  /\ UNCHANGED outerVars

NextTwice == Next \/ InvokeAgain

SpecTwice == InitTwice /\ [][NextTwice]_vars

----------------------------------------------------------------------------
(* prepareForAndroidAdaptiveIcon (lib/image-processor.mjs)                 *)

\* bound of the sides of the input image; LargeSides are further sides
MaxSide == 40

LargeSides == {263, 264, 265, 431, 432, 433, 527, 528, 529, 1023, 1024}

Sides == (1..MaxSide) \cup LargeSides

ANDROID_LAYER_SIZE == 432

\* the region inside the padding, 432 - 2 * 72, taken for the safe area
ViewportSize == 432 - 2 * 72

ANDROID_SAFE_AREA == 264

ANDROID_PADDING == 72

\* extractForeground is not running
ExtractIdle ==
  /\ fullMeta = [width |-> 0, height |-> 0]
  /\ bgMeta = [width |-> 0, height |-> 0]
  /\ fullBuffer = <<>>
  /\ bgBuffer = <<>>
  /\ outputBuffer = <<>>
  /\ i = 0
  /\ pc = "idle"
  /\ maxAbsDiff = 0
  /\ bestAlpha = FZero
  /\ bestError = Infinity
  /\ bestFg = <<0, 0, 0>>
  /\ testAlpha = FZero
  /\ error = FZero
  /\ outFile = NoFile
  /\ thrown = NoError
  /\ nTested = 0
  /\ assigned = <<>>
  /\ run = 1
  /\ prev = NoRun

\* Math.min of two Numbers
FMin(x, y) == IF FLt(y, x) THEN y ELSE x

\* the state before prepareForAndroidAdaptiveIcon runs on an image of any
\* of the sizes
InitPrepare ==
  /\ ExtractIdle
  /\ MainIdle
  /\ LibIdle
  /\ \E w \in Sides, h \in Sides : metadata = [width |-> w, height |-> h]
  /\ scale = FZero
  /\ scaledWidth = 0
  /\ scaledHeight = 0
  /\ left = 0
  /\ top = 0
  /\ padded = NoFile
  /\ ppc = "start"

\* Math.max in place of Math.min
ScaleOfMax(w, h) ==
  FMax(FDiv(FInt(ANDROID_SAFE_AREA), FInt(w)),
       FDiv(FInt(ANDROID_SAFE_AREA), FInt(h)))

\* line 185: the scale that fits the image into the safe area
ScaleOf(w, h) ==
  FMin(FDiv(FInt(ANDROID_SAFE_AREA), FInt(w)),
       FDiv(FInt(ANDROID_SAFE_AREA), FInt(h)))

\* lines 186-187: Math.round(side * scale)
Scaled(side, sc) == MathRound(FMul(FInt(side), sc))

\* the image is placed at the padding constant
CenteredAtPadding(scaled) == ANDROID_PADDING

\* lines 190-191: Math.round((ANDROID_LAYER_SIZE - scaled) / 2)
Centered(scaled) == MathRound(FDiv(FInt(ANDROID_LAYER_SIZE - scaled), FInt(2)))

\* lines 184-187: the scale and the scaled size
PrepareScale ==
  /\ ppc = "start"
  /\ scale' = ScaleOf(metadata.width, metadata.height)
  /\ scaledWidth' = Scaled(metadata.width, scale')
  /\ scaledHeight' = Scaled(metadata.height, scale')
  /\ ppc' = "scaled"
  /\ UNCHANGED <<metadata, left, top, padded, extractVars, mainVars, libVars>>

\* lines 189-191: the position that centers the scaled image
PrepareCenter ==
  /\ ppc = "scaled"
  /\ left' = Centered(scaledWidth)
  /\ top' = Centered(scaledHeight)
  /\ ppc' = "centered"
  /\ UNCHANGED <<metadata, scale, scaledWidth, scaledHeight, padded,
                 extractVars, mainVars, libVars>>

\* line 203: sharp's resize takes positive integers only
ResizeAccepts == scaledWidth >= 1 /\ scaledHeight >= 1

\* line 203: image.resize(scaledWidth, scaledHeight, ...) rejects a side of 0
PrepareResizeFails ==
  /\ ppc = "centered"
  /\ ~ResizeAccepts
  /\ ppc' = "failed"
  /\ UNCHANGED <<metadata, scale, scaledWidth, scaledHeight, left, top,
                 padded, extractVars, mainVars, libVars>>

\* lines 193-208: the scaled image is composited on a transparent canvas of
\* 432x432 and written
PrepareCompose ==
  /\ ppc = "centered"
  /\ ResizeAccepts
  /\ padded' = [written |-> TRUE,
                width |-> ANDROID_LAYER_SIZE, height |-> ANDROID_LAYER_SIZE,
                channels |-> 4,
                placed |-> [left |-> left, top |-> top,
                            width |-> scaledWidth, height |-> scaledHeight]]
  /\ ppc' = "done"
  /\ UNCHANGED <<metadata, scale, scaledWidth, scaledHeight, left, top,
                 extractVars, mainVars, libVars>>

NextPrepare ==
  \/ PrepareScale
  \/ PrepareCenter
  \/ PrepareResizeFails
  \/ PrepareCompose

SpecPrepare == InitPrepare /\ [][NextPrepare]_vars

----------------------------------------------------------------------------
(* main and convertIcon (convert-icon.mjs), createAndroidResourceStructure *)
(* (lib/android-resources.mjs)                                             *)

\* bound of the number of groups of an icon.json
MaxGroups == 2

\* a path is a sequence of names; a name is a stem and an extension
Dir(n) == [stem |-> n, ext |-> ""]

IconName(n) == [stem |-> n, ext |-> ".icon"]

\* the first argument, relative to the working directory
IconArgs ==
  { <<IconName("Turntable")>>, <<Dir("icons"), IconName("My")>>,
    <<Dir("plain")>> }

\* the second argument; <<>> is the empty string
OutArgs == { <<Dir("out")>>, <<>> }

ArgLists ==
  {<<>>} \cup {<<a>> : a \in IconArgs}
         \cup {<<a, o>> : a \in IconArgs, o \in OutArgs}

\* the contents an icon.json may have
IconDatas ==
  { [read |-> TRUE, fill |-> f, groups |-> g] :
      f \in {"automatic", "srgb", "none"}, g \in 0..MaxGroups }

\* process.cwd()
Cwd == <<Dir("work")>>

\* path.resolve of a relative path
Resolve(pth) == Cwd \o pth

\* path.basename(pth, ext)
Basename(pth, ext) ==
  IF pth[Len(pth)].ext = ext /\ pth[Len(pth)].stem # ""
    THEN Dir(pth[Len(pth)].stem)
    ELSE pth[Len(pth)]

\* args[1] ? ... : a missing argument and the empty string are falsy
HasOutputArg(a) == Len(a) >= 2 /\ a[2] # <<>>

\* line 146: the output directory
OutputDirOf(a, folder) ==
  IF HasOutputArg(a) THEN Resolve(a[2])
  ELSE Cwd \o <<Dir("output"), Basename(folder, ".icon")>>

\* os.tmpdir()
Tmpdir == <<Dir("tmp")>>

\* line 42: path.join(tmpdir(), `icon-convert-${Date.now()}`)
TempDir == Tmpdir \o <<Dir("icon-convert-now")>>

\* line 44: path.join(tempDir, path.basename(iconFolder))
TempIconFolder(folder) == TempDir \o <<folder[Len(folder)]>>

\* the descriptor is returned as it is
createBackgroundOnlyJsonSame(iconData) == iconData

\* { ...iconData, groups: [] }
createBackgroundOnlyJson(iconData) == [iconData EXCEPT !.groups = 0]

\* what createAndroidResourceStructure writes under the output directory
AndroidResources ==
  {"res/mipmap-anydpi-v26", "res/drawable", "res/mipmap-xxxhdpi",
   "res/mipmap-xxxhdpi/ic_launcher.png",
   "res/mipmap-xxxhdpi/ic_launcher_foreground.png",
   "res/drawable/ic_launcher_background.xml",
   "res/mipmap-anydpi-v26/ic_launcher.xml"}

InitMain ==
  /\ ExtractIdle
  /\ PrepareIdle
  /\ LibIdle
  /\ args \in ArgLists
  /\ iconFolder = NoPath
  /\ outputDir = NoPath
  /\ originalIconData = NoData
  /\ created = {}
  /\ jsonWrites = {}
  /\ trace = <<>>
  /\ usagePrinted = FALSE
  /\ exitCode = Running
  /\ mpc = "main"

\* lines 131-143: no arguments: the usage text and process.exit(1)
MainUsage ==
  /\ mpc = "main"
  /\ Len(args) = 0
  /\ usagePrinted' = TRUE
  /\ exitCode' = 1
  /\ mpc' = "exited"
  /\ UNCHANGED <<args, iconFolder, outputDir, originalIconData, created,
                 trace, extractVars, prepareVars,
                 jsonWrites, libVars>>

\* lines 145-146: the two paths
MainPaths ==
  /\ mpc = "main"
  /\ Len(args) # 0
  /\ iconFolder' = Resolve(args[1])
  /\ outputDir' = OutputDirOf(args, iconFolder')
  /\ mpc' = "accessIconFolder"
  /\ UNCHANGED <<args, originalIconData, created, trace, usagePrinted,
                 exitCode, extractVars, prepareVars,
                 jsonWrites, libVars>>

\* the rejection is swallowed and the next statement runs all the same
AwaitUnchecked(op, ok, next, made) ==
  /\ trace' = Append(trace, [op |-> op, ok |-> ok])
  /\ created' = IF ok THEN created \cup made ELSE created
  /\ mpc' = next

\* an awaited operation settles: fulfilled, it has made its files and the
\* next statement runs; rejected, the catch of main runs
Await(op, ok, next, made) ==
  /\ trace' = Append(trace, [op |-> op, ok |-> ok])
  /\ created' = IF ok THEN created \cup made ELSE created
  /\ mpc' = IF ok THEN next ELSE "caught"

\* the awaited operation op settles either way
Step(op, next, made) ==
  /\ \E ok \in BOOLEAN : Await(op, ok, next, made)
  /\ UNCHANGED <<args, iconFolder, outputDir, originalIconData,
                 usagePrinted, exitCode, extractVars, prepareVars,
                 jsonWrites, libVars>>

\* line 150: await fs.access(iconFolder)
AccessIconFolder ==
  /\ mpc = "accessIconFolder"
  /\ Step("accessIconFolder", "accessIconJson", {})

\* lines 151-152: await fs.access(iconJsonPath)
AccessIconJson ==
  /\ mpc = "accessIconJson"
  /\ Step("accessIconJson", "verifyIctoolExists", {})

\* line 155: await verifyIctoolExists()
VerifyIctoolExists ==
  /\ mpc = "verifyIctoolExists"
  /\ Step("verifyIctoolExists", "mkdirOutput", {})

\* lines 157, 36: convertIcon is called; await fs.mkdir(outputDir)
MkdirOutput ==
  /\ mpc = "mkdirOutput"
  /\ Step("mkdirOutput", "readIconJson", {"outputDir"})

\* line 39: originalIconData = await readIconJson(iconFolder)
ReadIconJson ==
  /\ mpc = "readIconJson"
  /\ \E ok \in BOOLEAN :
       /\ Await("readIconJson", ok, "mkdirTemp", {})
       /\ IF ok THEN originalIconData' \in IconDatas
                ELSE UNCHANGED originalIconData
  /\ UNCHANGED <<args, iconFolder, outputDir, usagePrinted, exitCode,
                 extractVars, prepareVars,
                 jsonWrites, libVars>>

\* line 42: tempDir = await fs.mkdir(...)
MkdirTemp ==
  /\ mpc = "mkdirTemp"
  /\ Step("mkdirTemp", "mkdirTempIconFolder", {"tempDir"})

\* line 45: await fs.mkdir(tempIconFolder)
MkdirTempIconFolder ==
  /\ mpc = "mkdirTempIconFolder"
  /\ Step("mkdirTempIconFolder", "cpAssets", {"tempIconFolder"})

\* lines 48-52: await fs.cp(Assets)
CpAssets ==
  /\ mpc = "cpAssets"
  /\ Step("cpAssets", "exportFull", {"tempIconFolder/Assets"})

\* lines 62-67: await exportImage(iconFolder, tempFullPath)
ExportFull ==
  /\ mpc = "exportFull"
  /\ Step("exportFull", "writeBackgroundJson", {"full.png"})

\* lines 72-73: await writeIconJson(tempIconFolder, backgroundOnlyData)
WriteBackgroundJson ==
  /\ mpc = "writeBackgroundJson"
  /\ \E ok \in BOOLEAN :
       /\ Await("writeBackgroundJson", ok, "exportBackground",
                {"tempIconFolder/icon.json"})
       /\ jsonWrites' =
            IF ok THEN jsonWrites \cup
                         {[folder |-> TempIconFolder(iconFolder),
                           data |-> createBackgroundOnlyJson(originalIconData)]}
                  ELSE jsonWrites
  /\ UNCHANGED <<args, iconFolder, outputDir, originalIconData,
                 usagePrinted, exitCode, extractVars, prepareVars, libVars>>

\* lines 75-80: await exportImage(tempIconFolder, tempBackgroundPath)
ExportBackground ==
  /\ mpc = "exportBackground"
  /\ Step("exportBackground", "extractForeground", {"background.png"})

\* line 85: await extractForeground(...)
ExtractForegroundStep ==
  /\ mpc = "extractForeground"
  /\ Step("extractForeground", "prepareFull", {"foreground.png"})

\* line 95: await prepareForAndroidAdaptiveIcon(tempFullPath, ...)
PrepareFull ==
  /\ mpc = "prepareFull"
  /\ Step("prepareFull", "prepareBackground", {"full-padded.png"})

\* line 96: await prepareForAndroidAdaptiveIcon(tempBackgroundPath, ...)
PrepareBackground ==
  /\ mpc = "prepareBackground"
  /\ Step("prepareBackground", "prepareForeground",
          {"background-padded.png"})

\* line 97: await prepareForAndroidAdaptiveIcon(tempForegroundPath, ...)
PrepareForeground ==
  /\ mpc = "prepareForeground"
  /\ Step("prepareForeground", "mkdirAnydpi", {"foreground-padded.png"})

\* createAndroidResourceStructure: await fs.mkdir(anydpiDir)
MkdirAnydpi ==
  /\ mpc = "mkdirAnydpi"
  /\ Step("mkdirAnydpi", "mkdirDrawable", {"res/mipmap-anydpi-v26"})

\* await fs.mkdir(drawableDir)
MkdirDrawable ==
  /\ mpc = "mkdirDrawable"
  /\ Step("mkdirDrawable", "mkdirMipmap", {"res/drawable"})

\* await fs.mkdir(mipmapDir)
MkdirMipmap ==
  /\ mpc = "mkdirMipmap"
  /\ Step("mkdirMipmap", "copyFull", {"res/mipmap-xxxhdpi"})

\* await fs.copyFile(fullPngPath, fullIconDest)
CopyFull ==
  /\ mpc = "copyFull"
  /\ Step("copyFull", "copyForeground",
          {"res/mipmap-xxxhdpi/ic_launcher.png"})

\* await fs.copyFile(foregroundPngPath, foregroundDest)
CopyForeground ==
  /\ mpc = "copyForeground"
  /\ Step("copyForeground", "backgroundDrawable",
          {"res/mipmap-xxxhdpi/ic_launcher_foreground.png"})

\* await generateBackgroundDrawableFromIcon(...)
BackgroundDrawable ==
  /\ mpc = "backgroundDrawable"
  /\ Step("backgroundDrawable", "adaptiveIconXml",
          {"res/drawable/ic_launcher_background.xml"})

\* await generateAdaptiveIconXml(...); convertIcon returns
AdaptiveIconXml ==
  /\ mpc = "adaptiveIconXml"
  /\ Step("adaptiveIconXml", "converted",
          {"res/mipmap-anydpi-v26/ic_launcher.xml"})

\* the catch reports the error and lets the process end with status 0
MainCatchExitZero ==
  /\ mpc = "caught"
  /\ exitCode' = 0
  /\ mpc' = "exited"
  /\ UNCHANGED <<args, iconFolder, outputDir, originalIconData, created,
                 trace, usagePrinted, extractVars, prepareVars,
                 jsonWrites, libVars>>

\* lines 158-165: catch (error): the message and process.exit(1)
MainCatch ==
  /\ mpc = "caught"
  /\ exitCode' = 1
  /\ mpc' = "exited"
  /\ UNCHANGED <<args, iconFolder, outputDir, originalIconData, created,
                 trace, usagePrinted, extractVars, prepareVars,
                 jsonWrites, libVars>>

\* lines 157-167: convertIcon returned; main returns and the process ends
MainReturn ==
  /\ mpc = "converted"
  /\ exitCode' = 0
  /\ mpc' = "exited"
  /\ UNCHANGED <<args, iconFolder, outputDir, originalIconData, created,
                 trace, usagePrinted, extractVars, prepareVars,
                 jsonWrites, libVars>>

NextMain ==
  \/ MainUsage
  \/ MainPaths
  \/ AccessIconFolder
  \/ AccessIconJson
  \/ VerifyIctoolExists
  \/ MkdirOutput
  \/ ReadIconJson
  \/ MkdirTemp
  \/ MkdirTempIconFolder
  \/ CpAssets
  \/ ExportFull
  \/ WriteBackgroundJson
  \/ ExportBackground
  \/ ExtractForegroundStep
  \/ PrepareFull
  \/ PrepareBackground
  \/ PrepareForeground
  \/ MkdirAnydpi
  \/ MkdirDrawable
  \/ MkdirMipmap
  \/ CopyFull
  \/ CopyForeground
  \/ BackgroundDrawable
  \/ AdaptiveIconXml
  \/ MainCatch
  \/ MainReturn

SpecMain == InitMain /\ [][NextMain]_vars

----------------------------------------------------------------------------
(* exportImage (lib/ictool-wrapper.mjs): the promise around the ictool     *)
(* child process and its 'data', 'close' and 'error' events                *)

\* bound of the number of events of one child process
MaxEvents == 4

\* the chunks ictool writes to its standard error
Chunks == {"warning", "failure"}

\* the codes a 'close' event carries: success, a failure of ictool, and the
\* negative errno of a child that could not be spawned
ExitCodes == {0, 1, -2}

InitExport ==
  /\ ExtractIdle
  /\ PrepareIdle
  /\ MainIdle
  /\ DrawableIdle
  /\ promise = "none"
  /\ reason = NoReason
  /\ stderr = <<>>
  /\ events = <<>>
  /\ settlements = 0
  /\ xpc = "start"

\* lines 397-426: the promise is created, the child spawned, the three
\* listeners attached
SpawnIctool ==
  /\ xpc = "start"
  /\ promise' = "pending"
  /\ stderr' = <<>>
  /\ xpc' = "listening"
  /\ UNCHANGED <<reason, events, settlements, extractVars, prepareVars,
                 mainVars, drawableVars>>

\* a call of resolve or reject always takes effect
SettleAgain(outcome, why) ==
  /\ promise' = outcome
  /\ reason' = why
  /\ settlements' = settlements + 1

\* resolve() or reject(why): a promise that is already settled stays as it is
Settle(outcome, why) ==
  IF promise = "pending"
    THEN /\ promise' = outcome
         /\ reason' = why
         /\ settlements' = settlements + 1
    ELSE UNCHANGED <<promise, reason, settlements>>

\* lines 412-414: stderr += data.toString()
OnData ==
  /\ xpc = "listening"
  /\ Len(events) < MaxEvents
  /\ \E c \in Chunks :
       /\ stderr' = Append(stderr, c)
       /\ events' = Append(events, [type |-> "data", chunk |-> c, code |-> 0])
  /\ UNCHANGED <<promise, reason, settlements, xpc, extractVars, prepareVars,
                 mainVars, drawableVars>>

\* lines 416-422: 'close': resolve() for code 0, else reject with the code
\* and the stderr text
OnClose ==
  /\ xpc = "listening"
  /\ Len(events) < MaxEvents
  /\ \E code \in ExitCodes :
       /\ events' = Append(events, [type |-> "close", chunk |-> "", code |-> code])
       /\ IF code = 0
            THEN Settle("fulfilled", NoReason)
            ELSE Settle("rejected",
                        [kind |-> "code", code |-> code, stderr |-> stderr])
  /\ UNCHANGED <<stderr, xpc, extractVars, prepareVars, mainVars, drawableVars>>

\* lines 424-426: 'error': reject with the spawn error
OnError ==
  /\ xpc = "listening"
  /\ Len(events) < MaxEvents
  /\ events' = Append(events, [type |-> "error", chunk |-> "", code |-> 0])
  /\ Settle("rejected", [kind |-> "spawn", code |-> 0, stderr |-> <<>>])
  /\ UNCHANGED <<stderr, xpc, extractVars, prepareVars, mainVars, drawableVars>>

NextExport ==
  \/ SpawnIctool
  \/ OnData
  \/ OnClose
  \/ OnError

SpecExport == InitExport /\ [][NextExport]_vars

----------------------------------------------------------------------------
(* generateBackgroundDrawableFromIcon (lib/android-resources.mjs) with     *)
(* getFillForDefaultAppearance and parseColorString (lib/icon-utils.mjs)   *)

\* bound of the length of a linear-gradient list
MaxList == 3

\* the numbers of s, which are written in thousandths
Nums(s) == [k \in 1..Len(s) |-> Num(s[k])]

\* the string 'space:v1,v2,...'
ColourString(space, values) ==
  [string |-> TRUE, empty |-> FALSE, parts |-> 2, space |-> space,
   values |-> values]

\* the values a colour is given as: strings of the three colour spaces with
\* and without alpha, 'srgb:1' and 'srgb:x,0,0', whose missing and unreadable
\* numbers are NaN, 'hsl:0,1,1', 'red', 'srgb:1,0,0:1', '' and the number 5
ColourStrings ==
  { ColourString("srgb", Nums(<<1000, 502, 0, 1000>>)),
    ColourString("display-p3", Nums(<<0, 250, 1000>>)),
    ColourString("extended-gray", Nums(<<500, 1000>>)),
    ColourString("srgb", Nums(<<1000>>)),
    ColourString("srgb", <<NaN, Num(0), Num(0)>>),
    ColourString("hsl", Nums(<<0, 1000, 1000>>)),
    [string |-> TRUE, empty |-> FALSE, parts |-> 1, space |-> "red",
     values |-> <<>>],
    [string |-> TRUE, empty |-> FALSE, parts |-> 3, space |-> "srgb",
     values |-> <<>>],
    EmptyString,
    [string |-> FALSE, empty |-> FALSE, parts |-> 0, space |-> "",
     values |-> <<>>] }

\* the colours of the linear-gradient lists
ListColours ==
  { ColourString("srgb", Nums(<<1000, 502, 0, 1000>>)),
    ColourString("extended-gray", Nums(<<500, 1000>>)),
    [string |-> TRUE, empty |-> FALSE, parts |-> 1, space |-> "red",
     values |-> <<>>] }

\* the fills: undefined, strings, {}, objects with one key and a colour,
\* linear-gradient lists, and a solid fill that is an array
Fills ==
  {NoFill}
  \cup { Fill("string", t, "", FALSE, <<>>, EmptyString) :
           t \in {"automatic", "none", "system-dark", "system-light", "",
                  "clear"} }
  \cup { Fill("object", "", k, FALSE, <<>>, c) :
           k \in {"solid", "automatic-gradient", "linear-gradient",
                  "radial-gradient"},
           c \in ColourStrings }
  \cup { Fill("object", "", "linear-gradient", TRUE, l, EmptyString) :
           l \in UNION { [1..n -> ListColours] : n \in 0..MaxList } }
  \cup { Fill("object", "", "", FALSE, <<>>, EmptyString),
         Fill("object", "", "solid", TRUE, <<>>, EmptyString) }

\* an entry of fill-specializations; '' stands for a missing property
Specialization(appearance, idiom, value) ==
  [appearance |-> appearance, idiom |-> idiom, value |-> value]

\* the icon.json data: without fill-specializations, with an empty list,
\* with a default entry after or before another entry, and without one
IconInputs ==
  { [specializations |-> FALSE, list |-> <<>>, fill |-> f] : f \in Fills }
  \cup { [specializations |-> TRUE, list |-> <<>>, fill |-> f] : f \in Fills }
  \cup { [specializations |-> TRUE,
          list |-> << Specialization("dark", "", o),
                      Specialization("", "", f) >>,
          fill |-> o] :
           f \in Fills,
           o \in {Fill("string", "system-dark", "", FALSE, <<>>, EmptyString)} }
  \cup { [specializations |-> TRUE,
          list |-> << Specialization("", "", f),
                      Specialization("", "", o) >>,
          fill |-> NoFill] :
           f \in Fills,
           o \in {Fill("string", "system-dark", "", FALSE, <<>>, EmptyString)} }
  \cup { [specializations |-> TRUE,
          list |-> << Specialization("dark", "", o),
                      Specialization("", "watchOS", o) >>,
          fill |-> f] :
           f \in Fills,
           o \in {Fill("string", "system-dark", "", FALSE, <<>>, EmptyString)} }

\* the colours samplePixelColor may return
SampledColours ==
  { Colour(Num(18), Num(52), Num(86)), Colour(Num(255), Num(255), Num(255)) }

\* !x of a fill
Truthy(f) == f.type = "object" \/ (f.type = "string" /\ f.text # "")

\* fill[key] of an object is truthy
HasProperty(f, key) ==
  /\ f.type = "object"
  /\ f.key = key
  /\ (f.array \/ ~f.colour.string \/ ~f.colour.empty)

\* iconData.fill only
getFillDirect(data) == IF Truthy(data.fill) THEN data.fill ELSE NoFill

\* part_000 lines 39-53
getFillForDefaultAppearance(data) ==
  IF /\ data.specializations
     /\ \E k \in 1..Len(data.list) :
          data.list[k].appearance = "" /\ data.list[k].idiom = ""
    THEN data.list[CHOOSE k \in 1..Len(data.list) :
                     /\ data.list[k].appearance = "" /\ data.list[k].idiom = ""
                     /\ \A j \in 1..(k - 1) :
                          ~(data.list[j].appearance = ""
                            /\ data.list[j].idiom = "")].value
    ELSE IF Truthy(data.fill) THEN data.fill ELSE NoFill

\* values[k], and undefined, which arithmetic turns into NaN
ValueAt(values, k) == IF k <= Len(values) THEN values[k] ELSE NaN

\* Math.round(x * 255) of a number read by parseFloat
ToChannel(x) ==
  IF x.nan THEN NaN
  ELSE Num(MathRound(FMul(FDiv(FInt(x.v), FInt(1000)), FInt(255))))

\* part_000 lines 60-97; the alpha of the result is read by no caller
parseColorString(c) ==
  IF ~c.string \/ c.empty THEN NoColour
  ELSE IF c.parts # 2 THEN NoColour
  ELSE IF c.space = "extended-gray"
    THEN Colour(ToChannel(ValueAt(c.values, 1)),
                ToChannel(ValueAt(c.values, 1)),
                ToChannel(ValueAt(c.values, 1)))
  ELSE IF c.space \in {"display-p3", "srgb"}
    THEN Colour(ToChannel(ValueAt(c.values, 1)),
                ToChannel(ValueAt(c.values, 2)),
                ToChannel(ValueAt(c.values, 3)))
  ELSE NoColour

\* n.toString(16) of an integer, as the sequence of its characters
RECURSIVE ToString16(_)
ToString16(n) ==
  IF n < 0 THEN <<"-">> \o ToString16(-n)
  ELSE IF n < 16
    THEN << <<"0", "1", "2", "3", "4", "5", "6", "7", "8", "9", "a", "b",
              "c", "d", "e", "f">>[n + 1] >>
  ELSE ToString16(n \div 16) \o ToString16(n % 16)

\* lines 45-46: Math.round(x).toString(16), padded to two characters
ChannelHex(x) ==
  IF x.nan THEN <<"N", "a", "N">>
  ELSE IF Len(ToString16(MathRound(FInt(x.v)))) = 1
    THEN <<"0">> \o ToString16(MathRound(FInt(x.v)))
  ELSE ToString16(MathRound(FInt(x.v)))

\* lines 43-48
rgbToHex(r, g, b) == <<"#">> \o ChannelHex(r) \o ChannelHex(g) \o ChannelHex(b)

InitDrawable ==
  /\ ExtractIdle
  /\ PrepareIdle
  /\ MainIdle
  /\ ExportIdle
  /\ icon \in IconInputs
  /\ fill = NoFill
  /\ topColor = NoColour
  /\ bottomColor = NoColour
  /\ topColorData = NoColour
  /\ topColorHex = <<>>
  /\ bottomColorHex = <<>>
  /\ rejection = ""
  /\ written = <<>>
  /\ dpc = "start"

\* throw new Error(message)
Throw(message) ==
  /\ rejection' = message
  /\ dpc' = "thrown"

\* lines 120-124
GetFill ==
  /\ dpc = "start"
  /\ fill' = getFillForDefaultAppearance(icon)
  /\ IF Truthy(getFillForDefaultAppearance(icon))
       THEN dpc' = "branch" /\ UNCHANGED rejection
       ELSE Throw("No fill found in icon.json")
  /\ UNCHANGED <<icon, topColor, bottomColor, topColorData, topColorHex,
                 bottomColorHex, written, extractVars, prepareVars, mainVars,
                 exportVars>>

\* lines 129-142
StringFill ==
  /\ dpc = "branch"
  /\ fill.type = "string"
  /\ IF fill.text \in {"automatic", "none", "system-light"}
       THEN /\ topColor' = Colour(Num(255), Num(255), Num(255))
            /\ bottomColor' = Colour(Num(255), Num(255), Num(255))
            /\ dpc' = "hex"
            /\ UNCHANGED rejection
       ELSE IF fill.text = "system-dark"
         THEN /\ topColor' = Colour(Num(0), Num(0), Num(0))
              /\ bottomColor' = Colour(Num(0), Num(0), Num(0))
              /\ dpc' = "hex"
              /\ UNCHANGED rejection
         ELSE /\ Throw("Unsupported fill string value")
              /\ UNCHANGED <<topColor, bottomColor>>
  /\ UNCHANGED <<icon, fill, topColorData, topColorHex, bottomColorHex,
                 written, extractVars, prepareVars, mainVars, exportVars>>

\* lines 144-154
LinearGradient ==
  /\ dpc = "branch"
  /\ fill.type = "object"
  /\ HasProperty(fill, "linear-gradient") /\ fill.array
  /\ IF Len(fill.list) >= 2
       THEN IF parseColorString(fill.list[1]).def
               /\ parseColorString(fill.list[2]).def
              THEN /\ topColor' = parseColorString(fill.list[1])
                   /\ bottomColor' = parseColorString(fill.list[2])
                   /\ dpc' = "hex"
                   /\ UNCHANGED rejection
              ELSE /\ Throw("Failed to parse linear-gradient colors from icon.json")
                   /\ UNCHANGED <<topColor, bottomColor>>
       ELSE /\ dpc' = "hex"
            /\ UNCHANGED <<topColor, bottomColor, rejection>>
  /\ UNCHANGED <<icon, fill, topColorData, topColorHex, bottomColorHex,
                 written, extractVars, prepareVars, mainVars, exportVars>>

\* lines 156-160
AutomaticGradient ==
  /\ dpc = "branch"
  /\ fill.type = "object"
  /\ ~(HasProperty(fill, "linear-gradient") /\ fill.array)
  /\ HasProperty(fill, "automatic-gradient")
  /\ IF ~fill.array /\ parseColorString(fill.colour).def
       THEN /\ bottomColor' = parseColorString(fill.colour)
            /\ dpc' = "metadata"
            /\ UNCHANGED rejection
       ELSE /\ Throw("Failed to parse automatic-gradient bottom color from icon.json")
            /\ UNCHANGED bottomColor
  /\ UNCHANGED <<icon, fill, topColor, topColorData, topColorHex,
                 bottomColorHex, written, extractVars, prepareVars, mainVars,
                 exportVars>>

\* lines 164-166: await image.metadata() settles either way
Metadata ==
  /\ dpc = "metadata"
  /\ \E ok \in BOOLEAN :
       IF ok THEN dpc' = "sample" /\ UNCHANGED rejection
       ELSE Throw("metadata")
  /\ UNCHANGED <<icon, fill, topColor, bottomColor, topColorData,
                 topColorHex, bottomColorHex, written, extractVars,
                 prepareVars, mainVars, exportVars>>

\* lines 171-172: await samplePixelColor(...) returns a colour or rejects
SamplePixel ==
  /\ dpc = "sample"
  /\ \/ \E c \in SampledColours :
          /\ topColorData' = c
          /\ topColor' = Colour(c.r, c.g, c.b)
          /\ dpc' = "hex"
          /\ UNCHANGED rejection
     \/ /\ Throw("samplePixelColor")
        /\ UNCHANGED <<topColor, topColorData>>
  /\ UNCHANGED <<icon, fill, bottomColor, topColorHex, bottomColorHex,
                 written, extractVars, prepareVars, mainVars, exportVars>>

\* lines 175-181
SolidFill ==
  /\ dpc = "branch"
  /\ fill.type = "object"
  /\ ~(HasProperty(fill, "linear-gradient") /\ fill.array)
  /\ ~HasProperty(fill, "automatic-gradient")
  /\ HasProperty(fill, "solid")
  /\ IF ~fill.array /\ parseColorString(fill.colour).def
       THEN /\ topColor' = parseColorString(fill.colour)
            /\ bottomColor' = parseColorString(fill.colour)
            /\ dpc' = "hex"
            /\ UNCHANGED rejection
       ELSE /\ Throw("Failed to parse solid color from icon.json")
            /\ UNCHANGED <<topColor, bottomColor>>
  /\ UNCHANGED <<icon, fill, topColorData, topColorHex, bottomColorHex,
                 written, extractVars, prepareVars, mainVars, exportVars>>

\* lines 182-184
UnsupportedFill ==
  /\ dpc = "branch"
  /\ fill.type = "object"
  /\ ~(HasProperty(fill, "linear-gradient") /\ fill.array)
  /\ ~HasProperty(fill, "automatic-gradient")
  /\ ~HasProperty(fill, "solid")
  /\ Throw("Unsupported fill type")
  /\ UNCHANGED <<icon, fill, topColor, bottomColor, topColorData,
                 topColorHex, bottomColorHex, written, extractVars,
                 prepareVars, mainVars, exportVars>>

\* lines 187-188: reading a property of an undefined colour is a TypeError
ToHex ==
  /\ dpc = "hex"
  /\ IF topColor.def /\ bottomColor.def
       THEN /\ topColorHex' = rgbToHex(topColor.r, topColor.g, topColor.b)
            /\ bottomColorHex' =
                 rgbToHex(bottomColor.r, bottomColor.g, bottomColor.b)
            /\ dpc' = "write"
            /\ UNCHANGED rejection
       ELSE /\ Throw("TypeError")
            /\ UNCHANGED <<topColorHex, bottomColorHex>>
  /\ UNCHANGED <<icon, fill, topColor, bottomColor, topColorData, written,
                 extractVars, prepareVars, mainVars, exportVars>>

\* lines 191-193: await generateGradientDrawableXml(...) settles either way
WriteDrawable ==
  /\ dpc = "write"
  /\ \E ok \in BOOLEAN :
       IF ok
         THEN /\ written' = Append(written, [top |-> topColorHex,
                                             bottom |-> bottomColorHex])
              /\ dpc' = "returned"
              /\ UNCHANGED rejection
         ELSE /\ Throw("writeFile")
              /\ UNCHANGED written
  /\ UNCHANGED <<icon, fill, topColor, bottomColor, topColorData,
                 topColorHex, bottomColorHex, extractVars, prepareVars,
                 mainVars, exportVars>>

NextDrawable ==
  \/ GetFill
  \/ StringFill
  \/ LinearGradient
  \/ AutomaticGradient
  \/ Metadata
  \/ SamplePixel
  \/ SolidFill
  \/ UnsupportedFill
  \/ ToHex
  \/ WriteDrawable

SpecDrawable == InitDrawable /\ [][NextDrawable]_vars

----------------------------------------------------------------------------
(* extractForeground on images whose pixels share their colours and differ *)
(* in their alpha bytes                                                    *)

\* the number of pixels of such an image (one row)
AlphaWidth == 2

\* the samples the colours are taken from: equal colours, a colour
\* difference of 5, and a scan that runs to the end of its range
AlphaSamples == {2, 4, 14}

\* the alpha bytes of the full and of the background pixel
AlphaPairs == {<<255, 255>>, <<255, 250>>, <<40, 200>>, <<0, 255>>}

\* the pixel px with the alpha byte a
WithAlpha(px, a) == <<px[1], px[2], px[3], a>>

\* the raw bytes of n pixels of the colour px with the alpha bytes al[1..n]
RECURSIVE AlphaBytes(_, _, _)
AlphaBytes(px, al, n) ==
  IF n = 0 THEN <<>> ELSE AlphaBytes(px, al, n - 1) \o WithAlpha(px, al[n])

InitAlpha ==
  \E k \in AlphaSamples, al \in [1..AlphaWidth -> AlphaPairs],
     bw \in 1..AlphaWidth :
    /\ fullMeta = [width |-> AlphaWidth, height |-> 1]
    /\ bgMeta = [width |-> bw, height |-> 1]
    /\ fullBuffer = AlphaBytes(Samples[k].full,
                               [p \in 1..AlphaWidth |-> al[p][1]], AlphaWidth)
    /\ bgBuffer = AlphaBytes(Samples[k].bg,
                             [p \in 1..AlphaWidth |-> al[p][2]], bw)
    /\ outputBuffer = <<>>
    /\ i = 0
    /\ pc = "start"
    /\ maxAbsDiff = 0
    /\ bestAlpha = FZero
    /\ bestError = Infinity
    /\ bestFg = <<0, 0, 0>>
    /\ testAlpha = FZero
    /\ error = FZero
    /\ outFile = NoFile
    /\ thrown = NoError
    /\ nTested = 0
    /\ assigned = <<>>
    /\ run = 1
    /\ prev = NoRun
    /\ OuterIdle

SpecAlpha == InitAlpha /\ [][Next]_vars

----------------------------------------------------------------------------
(* extractForeground on images whose pixels differ from the background by  *)
(* less than 15 in every colour channel                                    *)

\* the number of pixels of such an image (one row)
NoiseWidth == 1

\* the values <<full, background>> of one colour channel: differences of 14
\* at both ends of the byte range, and of 0 and 5 inside it
ChannelPairs == << <<255, 241>>, <<0, 14>>, <<100, 100>>, <<30, 25>> >>

NumChannelPairs == Len(ChannelPairs)

\* every combination of channel values is a pixel pair, numbered from 0
NoisePixels == 0..(NumChannelPairs * NumChannelPairs * NumChannelPairs - 1)

\* the full (side 1) or background (side 2) pixel of pixel pair k
NoisePixel(k, side) ==
  <<ChannelPairs[(k % NumChannelPairs) + 1][side],
    ChannelPairs[((k \div NumChannelPairs) % NumChannelPairs) + 1][side],
    ChannelPairs[(k \div (NumChannelPairs * NumChannelPairs)) + 1][side],
    255>>

\* the raw bytes of the n pixels k, k + 1, ... of one side
RECURSIVE NoiseBytes(_, _, _)
NoiseBytes(k, side, n) ==
  IF n = 0 THEN <<>>
  ELSE NoiseBytes(k, side, n - 1)
         \o NoisePixel((k + n - 1) % (NumChannelPairs * NumChannelPairs
                                        * NumChannelPairs), side)

InitNoise ==
  \E k \in NoisePixels, w \in 1..NoiseWidth, bh \in 1..2 :
    /\ fullMeta = [width |-> w, height |-> 1]
    /\ bgMeta = [width |-> w, height |-> bh]
    /\ fullBuffer = NoiseBytes(k, 1, w)
    /\ bgBuffer = NoiseBytes(k, 2, w * bh)
    /\ outputBuffer = <<>>
    /\ i = 0
    /\ pc = "start"
    /\ maxAbsDiff = 0
    /\ bestAlpha = FZero
    /\ bestError = Infinity
    /\ bestFg = <<0, 0, 0>>
    /\ testAlpha = FZero
    /\ error = FZero
    /\ outFile = NoFile
    /\ thrown = NoError
    /\ nTested = 0
    /\ assigned = <<>>
    /\ run = 1
    /\ prev = NoRun
    /\ OuterIdle

SpecNoise == InitNoise /\ [][Next]_vars

----------------------------------------------------------------------------
(* Properties of extractForeground                                         *)

Transparent == <<0, 0, 0, 0>>

\* the pixels of the full image, numbered from 0
Pixels == 0..((Len(fullBuffer) \div channels) - 1)

\* |full - bg| in channel c (0 = R .. 3 = A) of pixel p
ChannelDiff(p, c) ==
  Abs(Byte(fullBuffer, p * channels + c) - Byte(bgBuffer, p * channels + c))

FullPixel(p) == PixelAt(fullBuffer, p * channels)

BgPixel(p) == PixelAt(bgBuffer, p * channels)

OutputPixel(p) == PixelAt(outputBuffer, p * channels)

\* sum over R, G, B of |a * fg + (1 - a) * bg - full| for pixel p
ReconstructionError(p, fg, a) ==
  FAdd(FAdd(FAbs(FSub(FAdd(FMul(a, FInt(fg[1])),
                           FMul(FSub(FInt(1), a), FInt(BgPixel(p)[1]))),
                      FInt(FullPixel(p)[1]))),
            FAbs(FSub(FAdd(FMul(a, FInt(fg[2])),
                           FMul(FSub(FInt(1), a), FInt(BgPixel(p)[2]))),
                      FInt(FullPixel(p)[2])))),
       FAbs(FSub(FAdd(FMul(a, FInt(fg[3])),
                      FMul(FSub(FInt(1), a), FInt(BgPixel(p)[3]))),
                 FInt(FullPixel(p)[3]))))

\* C1: the pixel loop stores (0,0,0,0) for a pixel without entering the
\* alpha search if and only if the largest of the four channel differences
\* of that pixel is below 5.
C1_IdentityIffBelowFive ==
  [][(pc = "loop" /\ i < Len(fullBuffer)) =>
       ((pc' = "loop" /\ i' = i + channels
           /\ PixelAt(outputBuffer', i) = Transparent)
        <=> (\A c \in 0..3 : ChannelDiff(i \div channels, c) < 5))]_vars

\* one finished image holds an equal pixel and a pixel differing by 4 in
\* every channel, both stored transparent, and a pixel whose largest
\* difference is exactly 5, which went through the search
C1_Witness ==
  /\ pc = "done"
  /\ \E p \in Pixels : /\ \A c \in 0..3 : ChannelDiff(p, c) = 0
                       /\ OutputPixel(p) = Transparent
  /\ \E p \in Pixels : /\ \A c \in 0..3 : ChannelDiff(p, c) = 4
                       /\ OutputPixel(p) = Transparent
  /\ \E p \in Pixels : /\ \A c \in 0..3 : ChannelDiff(p, c) <= 5
                       /\ \E c \in 0..3 : ChannelDiff(p, c) = 5
                       /\ OutputPixel(p) # Transparent

\* C2: every pixel the loop stores is (0,0,0,0), or the selected foreground
\* colour with the alpha byte round(255 * alpha) of the selected alpha, and
\* compositing that colour over the background at that alpha is within a
\* summed error of 30 of the full pixel.
C2_OutputReconstructs ==
  [][(pc \in {"loop", "emit"} /\ i' = i + channels) =>
       \/ PixelAt(outputBuffer', i) = Transparent
       \/ /\ PixelAt(outputBuffer', i) =
               <<bestFg[1], bestFg[2], bestFg[3],
                 MathRound(FMul(bestAlpha, FInt(255)))>>
          /\ FLe(ReconstructionError(i \div channels, bestFg, bestAlpha),
                 FInt(30))]_vars

\* a pixel was stored half-transparent after a scan of several candidates
C2_Witness ==
  /\ pc = "loop"
  /\ i > 0
  /\ nTested > 1
  /\ PixelAt(outputBuffer, i - channels)[4] \in 1..254

\* the pixel of the round-trip example: full (222,173,182) on white
RoundTripInput(p) ==
  /\ FullPixel(p) = <<222, 173, 182, 255>>
  /\ BgPixel(p) = <<255, 255, 255, 255>>

\* C3 as the specification states it: for the background (255,255,255) and
\* the full pixel (222,173,182) the output colour is within 1 of
\* (200,50,100) and the output alpha within 3 of 153.
C3_RoundTripAsStated ==
  pc = "done" =>
    \A p \in Pixels :
      RoundTripInput(p) =>
        /\ Abs(OutputPixel(p)[1] - 200) <= 1
        /\ Abs(OutputPixel(p)[2] - 50) <= 1
        /\ Abs(OutputPixel(p)[3] - 100) <= 1
        /\ Abs(OutputPixel(p)[4] - 153) <= 3

\* C3, amended: for the background (255,255,255) and the full pixel
\* (222,173,182) the output is the colour (152,0,28) with the alpha byte 82,
\* the lowest alpha of the scan, and it recomposes to the full pixel within
\* a summed error of 1.
C3_RoundTripLowestAlpha ==
  pc = "done" =>
    \A p \in Pixels :
      RoundTripInput(p) =>
        /\ OutputPixel(p) = <<152, 0, 28, 82>>
        /\ FLe(ReconstructionError(p, <<152, 0, 28>>,
                                   FDiv(FInt(82), FInt(255))),
               FInt(1))

\* an image holding the pixel of the example was processed to the end
C3_Witness == pc = "done" /\ \E p \in Pixels : RoundTripInput(p)

\* some colour channel of pixel p differs by the full 255
FullDifference(p) == \E c \in 0..2 : ChannelDiff(p, c) = 255

\* C4: when a colour channel of a pixel differs by 255, the scan starts at
\* 1.0, 1.0 is the only candidate it evaluates, and the output pixel is the
\* full pixel's colour with alpha 255.
C4_FullDifferenceOpaque ==
  /\ (pc = "scan" /\ FullDifference(i \div channels) /\ nTested = 0)
       => (FLe(testAlpha, FInt(1)) /\ FLe(FInt(1), testAlpha))
  /\ (pc = "emit" /\ FullDifference(i \div channels))
       => (nTested = 1 /\ FLe(bestAlpha, FInt(1)) /\ FLe(FInt(1), bestAlpha))
  /\ pc = "done" =>
       \A p \in Pixels :
         FullDifference(p) =>
           OutputPixel(p) = <<FullPixel(p)[1], FullPixel(p)[2],
                              FullPixel(p)[3], 255>>

\* a finished image holds a pixel with one channel differing by 255 and
\* the other colour channels differing by less
C4_Witness ==
  /\ pc = "done"
  /\ \E p \in Pixels : /\ FullDifference(p)
                       /\ \E c \in 0..2 : ChannelDiff(p, c) \in 1..254

\* C5: when the two images differ in width or height, extractForeground
\* ends with an error that carries both dimension pairs, no pixel is
\* processed and no output is written.
C5_MismatchFails ==
  (fullMeta # bgMeta) =>
     /\ pc \in {"start", "failed"}
     /\ outFile = NoFile
     /\ outputBuffer = <<>>
     /\ assigned = <<>>
     /\ i = 0
     /\ pc = "failed" => /\ thrown.raised
                         /\ thrown.full = fullMeta
                         /\ thrown.background = bgMeta

\* the call failed on images of equal width and different height
C5_Witness ==
  /\ pc = "failed"
  /\ fullMeta.width = bgMeta.width
  /\ fullMeta.height # bgMeta.height
  /\ thrown.raised

\* C6: when the two images have the same size, the written output has that
\* width and height and 4 channels, and every pixel of it was assigned
\* exactly once; no pixel is ever assigned twice.
C6_OutputComplete ==
  /\ \A p \in 1..Len(assigned) : assigned[p] <= 1
  /\ pc = "done" =>
       /\ fullMeta = bgMeta
       /\ outFile.written
       /\ outFile.width = fullMeta.width
       /\ outFile.height = fullMeta.height
       /\ outFile.channels = 4
       /\ Len(outFile.data) = fullMeta.width * fullMeta.height * 4
       /\ Len(assigned) = fullMeta.width * fullMeta.height
       /\ \A p \in 1..Len(assigned) : assigned[p] = 1

\* an image of more than one row and more than one column was written,
\* with pixels from both branches of the loop
C6_Witness ==
  /\ pc = "done"
  /\ fullMeta.width > 1
  /\ fullMeta.height > 1
  /\ \E p \in Pixels : OutputPixel(p) = Transparent
  /\ \E p \in Pixels : OutputPixel(p) # Transparent

\* pixel p exists in both invocations and holds the same full and the same
\* background pixel in both
SameInputAt(p) ==
  /\ (p + 1) * channels <= Len(prev.full)
  /\ FullPixel(p) = PixelAt(prev.full, p * channels)
  /\ BgPixel(p) = PixelAt(prev.bg, p * channels)

\* C7: of two invocations whose inputs agree at a pixel index, the outputs
\* agree at that index, whatever the other pixels of the images hold.
C7_PixelIndependence ==
  (pc = "done" /\ run = 2) =>
     \A p \in Pixels :
       SameInputAt(p) =>
         PixelAt(outFile.data, p * channels)
           = PixelAt(prev.out.data, p * channels)

\* two finished invocations agree at a pixel that went through the search
\* and differ at another pixel
C7_Witness ==
  /\ pc = "done"
  /\ run = 2
  /\ \E p \in Pixels : SameInputAt(p) /\ OutputPixel(p) # Transparent
  /\ \E p \in Pixels : /\ (p + 1) * channels <= Len(prev.full)
                       /\ ~SameInputAt(p)

StepsLeft ==
  CASE pc = "start" -> ((Len(fullBuffer) \div channels) + 1) * 104 + 2
    [] pc = "loop" -> ((Len(fullBuffer) - i) \div channels) * 104 + 1
    [] pc = "scan" -> ((Len(fullBuffer) - i) \div channels) * 104 - nTested
    [] pc = "emit" -> ((Len(fullBuffer) - i) \div channels) * 104 - 102
    [] OTHER -> 0

\* C9: a call runs to its end, every step lowering a bound on the steps
\* left; the scan of a pixel starts at an alpha of at most 1.0, evaluates at
\* least one and at most 100 candidates, and ends with a finite best error.
C9_Total ==
  /\ [](/\ (pc = "scan" /\ nTested = 0) => FLe(testAlpha, FInt(1))
        /\ (pc \in {"scan", "emit"}) => nTested <= 100
        /\ (pc = "emit") => (nTested >= 1 /\ ~bestError.inf)
        /\ StepsLeft >= 0)
  /\ [][StepsLeft' < StepsLeft]_vars

\* a scan ran past 1.0 without an early exit after more than 60 candidates
C9_Witness ==
  /\ pc = "emit"
  /\ ~FLe(testAlpha, FInt(1))
  /\ nTested > 60
  /\ ~bestError.inf

\* the largest of the R, G, B differences of pixel p
LargestColourDiff(p) ==
  CHOOSE m \in {ChannelDiff(p, c) : c \in 0..2} :
    \A c \in 0..2 : ChannelDiff(p, c) <= m

\* C10: after the scan, the stored pixel is (0,0,0,0) if the best error is
\* above 30 and the largest colour difference is below 15, and otherwise
\* the best foreground colour with the alpha byte round(bestAlpha * 255).
C10_NoiseRejection ==
  [][(pc = "emit" /\ pc' = "loop") =>
       PixelAt(outputBuffer', i) =
         IF FLt(FInt(30), bestError) /\ LargestColourDiff(i \div channels) < 15
           THEN Transparent
           ELSE <<bestFg[1], bestFg[2], bestFg[3],
                  MathRound(FMul(bestAlpha, FInt(255)))>>]_vars

\* a pixel with a largest colour difference below 15 was stored with the
\* result of its search
C10_Witness ==
  /\ pc = "loop"
  /\ i > 0
  /\ LargestColourDiff((i - channels) \div channels) \in 5..14
  /\ PixelAt(outputBuffer, i - channels) # Transparent

\* C17: during and after the search of a pixel the selected alpha is at
\* least 0.01 and at least maxAbsDiff/255, and at most 1.0; every output
\* pixel that is not (0,0,0,0) has an alpha byte of at least the pixel's
\* largest colour difference, at least 3 and at most 255.
C17_AlphaLowerBound ==
  /\ pc \in {"scan", "emit"} =>
       /\ FLe(alphaStep, bestAlpha)
       /\ FLe(FDiv(FInt(LargestColourDiff(i \div channels)), FInt(255)),
              bestAlpha)
       /\ FLe(bestAlpha, FInt(1))
  /\ pc = "done" =>
       \A p \in Pixels :
         OutputPixel(p) # Transparent =>
           /\ OutputPixel(p)[4] >= LargestColourDiff(p)
           /\ OutputPixel(p)[4] >= 3
           /\ OutputPixel(p)[4] <= 255

\* a finished image holds a pixel differing in alpha only, stored with the
\* alpha byte 3, and a pixel with a colour difference, stored with an alpha
\* byte above that difference
C17_Witness ==
  /\ pc = "done"
  /\ \E p \in Pixels : LargestColourDiff(p) = 0 /\ OutputPixel(p)[4] = 3
  /\ \E p \in Pixels : /\ LargestColourDiff(p) >= 4
                       /\ OutputPixel(p)[4] > LargestColourDiff(p)
                       /\ OutputPixel(p)[4] < 255

\* C18: in a scan that runs to the end of its range without an early exit,
\* the last candidate evaluated, the one whose successor is above 1.0, is
\* the alpha 1.0 itself.
C18_ScanReachesOne ==
  [][(pc = "scan" /\ pc' = "scan" /\ ~FLe(testAlpha', FInt(1))) =>
       (FLe(testAlpha, FInt(1)) /\ FLe(FInt(1), testAlpha))]_vars

\* x and y are the same number
FEq(x, y) == FLe(x, y) /\ FLe(y, x)

\* the alpha the scan of pixel p starts at
ScanStart(p) == StartAlpha(LargestColourDiff(p))

\* a walk over the candidates of the pixel at byte offset j is over: n
\* candidates are left to visit and t is the next alpha
WalkOver(w) == w.n = 0 \/ ~FLe(w.t, FInt(1))

\* the walk visits the candidate t: least is the least error so far, at is
\* the lowest alpha that has it and last the highest
WalkVisit(w, e) ==
  [t |-> FAdd(w.t, alphaStep),
   n |-> w.n - 1,
   least |-> FMin(w.least, e),
   at |-> IF FLt(e, w.least) THEN w.t ELSE w.at,
   last |-> IF FLe(e, w.least) THEN w.t ELSE w.last]

WalkOne(j, walk) ==
  CHOOSE r \in
    {IF WalkOver(w) THEN w
     ELSE CHOOSE v \in
            {WalkVisit(w, e) :
               e \in {Candidate(fullBuffer, bgBuffer, j, w.t).error}} : TRUE :
       w \in {walk}} : TRUE

WalkTen(j, walk) ==
  WalkOne(j, WalkOne(j, WalkOne(j, WalkOne(j, WalkOne(j,
    WalkOne(j, WalkOne(j, WalkOne(j, WalkOne(j, WalkOne(j, walk))))))))))

\* the walk over up to 10 * k candidates, the alphas accumulated as the
\* scan accumulates them
RECURSIVE Walk(_, _, _)
Walk(j, walk, k) ==
  CHOOSE r \in
    {IF k = 0 \/ WalkOver(w) THEN w
     ELSE CHOOSE v \in {Walk(j, x, k - 1) : x \in {WalkTen(j, w)}} : TRUE :
       w \in {walk}} : TRUE

\* the walk over the first n candidates of the scan of the pixel at byte
\* offset j, at most 100 and none above 1.0
WalkFrom(j, n) ==
  Walk(j, [t |-> ScanStart(j \div channels), n |-> n, least |-> Infinity,
           at |-> ScanStart(j \div channels),
           last |-> ScanStart(j \div channels)], 10)

\* the least error over the whole scan range of the pixel being searched
WholeRangeMin == WalkFrom(i, 100).least

\* the least error over the candidates the scan has evaluated
ScannedMin == WalkFrom(i, nTested).least

\* C19 as the specification states it: when the search of a pixel is over,
\* no candidate of the scan range, from the start alpha to 1.0 in steps of
\* 0.01, has a strictly smaller error than the selected one.
C19_MinimisesRange ==
  pc = "emit" => FLe(bestError, WholeRangeMin)

\* C19, amended: when the search of a pixel is over, the selected alpha has
\* the least error of the candidates the scan evaluated, and candidates of
\* the range were left unevaluated only if the selected error is below 0.1.
C19_MinimisesEvaluated ==
  pc = "emit" =>
    /\ FEq(bestError, ScannedMin)
    /\ FEq(bestError, Candidate(fullBuffer, bgBuffer, i, bestAlpha).error)
    /\ FLe(testAlpha, FInt(1)) => FLt(bestError, perfectError)

\* a scan of several candidates ended early at an error below 0.1 while a
\* candidate further up the range has a smaller error
C19_Witness ==
  /\ pc = "emit"
  /\ nTested > 1
  /\ FLe(testAlpha, FInt(1))
  /\ FLt(bestError, perfectError)
  /\ FLt(WholeRangeMin, bestError)

\* C20: when the search of a pixel is over, the selected alpha is the
\* lowest evaluated alpha that has the least error and the selected colour
\* is the clamped, rounded colour of the candidate at that alpha; a
\* candidate whose error equals the best error so far leaves the selection
\* as it is; the colour stored with a non-zero alpha is the selected one.
C20_TieBreaking ==
  /\ [](pc = "emit" =>
          /\ FEq(bestAlpha, WalkFrom(i, nTested).at)
          /\ bestFg = Candidate(fullBuffer, bgBuffer, i, bestAlpha).fg)
  /\ [][/\ (pc = "scan" /\ nTested' = nTested + 1 /\ FEq(error', bestError))
            => UNCHANGED <<bestError, bestAlpha, bestFg>>
        /\ (pc = "emit" /\ pc' = "loop"
              /\ PixelAt(outputBuffer', i) # Transparent)
            => PixelAt(outputBuffer', i) =
                 <<Candidate(fullBuffer, bgBuffer, i, bestAlpha).fg[1],
                   Candidate(fullBuffer, bgBuffer, i, bestAlpha).fg[2],
                   Candidate(fullBuffer, bgBuffer, i, bestAlpha).fg[3],
                   MathRound(FMul(bestAlpha, FInt(255)))>>]_vars

\* a search is over in which two evaluated candidates have the least error,
\* and the lower alpha of the two is the selected one
C20_Witness ==
  /\ pc = "emit"
  /\ nTested > 1
  /\ FLt(WalkFrom(i, nTested).at, WalkFrom(i, nTested).last)
  /\ FEq(bestAlpha, WalkFrom(i, nTested).at)

\* C21: the scan evaluates its candidates in increasing alpha; while it
\* goes on no candidate so far had an error below 0.1; a candidate with an
\* error below 0.1 ends the scan at once and is the selected one, no
\* candidate is evaluated after it, and its colour and alpha are stored.
C21_EarlyExit ==
  /\ []((pc = "scan" /\ nTested > 0) => ~FLt(bestError, perfectError))
  /\ [][/\ (pc = "scan" /\ nTested' = nTested + 1) =>
             /\ FEq(error', Candidate(fullBuffer, bgBuffer, i, testAlpha).error)
             /\ IF FLt(error', perfectError)
                  THEN /\ pc' = "emit"
                       /\ testAlpha' = testAlpha
                       /\ bestAlpha' = testAlpha
                       /\ bestError' = error'
                       /\ bestFg' =
                            Candidate(fullBuffer, bgBuffer, i, testAlpha).fg
                  ELSE /\ pc' = "scan"
                       /\ FLt(testAlpha, testAlpha')
        /\ pc = "emit" =>
             /\ nTested' = nTested
             /\ (pc' = "loop" /\ FLt(bestError, perfectError)) =>
                  PixelAt(outputBuffer', i) =
                    <<bestFg[1], bestFg[2], bestFg[3],
                      MathRound(FMul(bestAlpha, FInt(255)))>>]_vars

\* the pixel of a scan that ended early at its third candidate or later
\* was stored with that candidate's alpha, and candidates of the range
\* were left unevaluated
C21_Witness ==
  /\ pc = "loop"
  /\ i > 0
  /\ nTested > 2
  /\ FLt(error, perfectError)
  /\ FEq(bestAlpha, testAlpha)
  /\ FLe(FAdd(testAlpha, alphaStep), FInt(1))
  /\ PixelAt(outputBuffer, i - channels)[4]
       = MathRound(FMul(testAlpha, FInt(255)))

\* pixel p is not classified as identity
NonIdentity(p) == \E c \in 0..3 : ChannelDiff(p, c) >= 5

\* pixels p and q have the same R, G, B in the full image and the same
\* R, G, B in the background image
SameColours(p, q) ==
  \A c \in 1..3 : /\ FullPixel(p)[c] = FullPixel(q)[c]
                  /\ BgPixel(p)[c] = BgPixel(q)[c]

\* C22: two pixels with the same R, G, B in full and in background that are
\* both not classified as identity get the same output pixel, whatever
\* their input alpha bytes are; a pixel whose colours are equal in full and
\* background is searched with maxAbsDiff = 0.
C22_AlphaForIdentityOnly ==
  /\ pc \in {"scan", "emit"} =>
       /\ maxAbsDiff = LargestColourDiff(i \div channels)
       /\ (\A c \in 0..2 : ChannelDiff(i \div channels, c) = 0)
            => (maxAbsDiff = 0 /\ ChannelDiff(i \div channels, 3) >= 5)
  /\ pc = "done" =>
       \A p, q \in Pixels :
         (SameColours(p, q) /\ NonIdentity(p) /\ NonIdentity(q))
           => OutputPixel(p) = OutputPixel(q)

\* a finished image holds two pixels of the same colours and different
\* alpha bytes, both differing from the background by 5 or more in alpha
\* only, and both stored with the same output, which is not (0,0,0,0)
C22_Witness ==
  /\ pc = "done"
  /\ \E p, q \in Pixels :
       /\ SameColours(p, q)
       /\ FullPixel(p)[4] # FullPixel(q)[4]
       /\ BgPixel(p)[4] # BgPixel(q)[4]
       /\ LargestColourDiff(p) = 0
       /\ NonIdentity(p) /\ NonIdentity(q)
       /\ OutputPixel(p) = OutputPixel(q)
       /\ OutputPixel(p) # Transparent

\* C23: when the search of a pixel whose largest colour difference is
\* below 15 is over, the best error is at most 30, so the pixel is never
\* taken for noise: the stored pixel is the result of the search.
C23_NoiseBranchDead ==
  /\ [](pc = "emit" =>
          /\ LargestColourDiff(i \div channels) < 15 => FLe(bestError, FInt(30))
          /\ ~IsNoise)
  /\ [][(pc = "emit" /\ pc' = "loop") =>
          PixelAt(outputBuffer', i) =
            <<bestFg[1], bestFg[2], bestFg[3],
              MathRound(FMul(bestAlpha, FInt(255)))>>]_vars

\* the search of a pixel with a largest colour difference of 14 is over;
\* its first candidate had an error above 30 and the best error is below 1
C23_Witness ==
  /\ pc = "emit"
  /\ LargestColourDiff(i \div channels) = 14
  /\ nTested > 1
  /\ FLt(FInt(30),
         Candidate(fullBuffer, bgBuffer, i, ScanStart(i \div channels)).error)
  /\ FLt(bestError, FInt(1))

\* C24: every byte of the output is an integer in 0..255; every pixel of
\* the written output is (0,0,0,0) or has an alpha byte in 1..255; and a
\* pixel is (0,0,0,0) exactly when its largest difference over R, G, B, A
\* is below 5.
C24_OutputPixels ==
  /\ \A b \in 1..Len(outputBuffer) : outputBuffer[b] \in 0..255
  /\ pc = "done" =>
       \A p \in Pixels :
         /\ OutputPixel(p) = Transparent \/ OutputPixel(p)[4] \in 1..255
         /\ OutputPixel(p) = Transparent <=> ~NonIdentity(p)

\* a written image holds a transparent, a half-transparent and an opaque
\* pixel
C24_Witness ==
  /\ pc = "done"
  /\ \E p \in Pixels : OutputPixel(p) = Transparent
  /\ \E p \in Pixels : OutputPixel(p)[4] \in 1..254
  /\ \E p \in Pixels : OutputPixel(p)[4] = 255

----------------------------------------------------------------------------
(* Properties of prepareForAndroidAdaptiveIcon                             *)

\* prepareForAndroidAdaptiveIcon has computed the scaled size
HasScaled == ppc \in {"scaled", "centered", "done", "failed"}

\* prepareForAndroidAdaptiveIcon has computed the position
HasCentered == ppc \in {"centered", "done", "failed"}

\* C11: the scale is min(264/width, 264/height), both sides are scaled by
\* it and rounded to the nearest integer, both scaled sides are at most 264
\* and the larger one is 264.
C11_SafeAreaFit ==
  HasScaled =>
    /\ FLe(scale, FDiv(FInt(264), FInt(metadata.width)))
    /\ FLe(scale, FDiv(FInt(264), FInt(metadata.height)))
    /\ \/ FLe(FDiv(FInt(264), FInt(metadata.width)), scale)
       \/ FLe(FDiv(FInt(264), FInt(metadata.height)), scale)
    /\ scaledWidth = MathRound(FMul(FInt(metadata.width), scale))
    /\ scaledHeight = MathRound(FMul(FInt(metadata.height), scale))
    /\ scaledWidth <= 264
    /\ scaledHeight <= 264
    /\ (scaledWidth = 264 \/ scaledHeight = 264)

\* an image wider than high and larger than the safe area was scaled down
\* and written
C11_Witness ==
  /\ ppc = "done"
  /\ metadata.width > 264
  /\ metadata.height < metadata.width
  /\ scaledWidth = 264
  /\ scaledHeight \in 2..263

\* C12: left and top are (432 - scaled side) / 2 rounded to the nearest
\* integer; the placed image lies inside the 432x432 canvas and inside its
\* central 264x264 region, and the two margins of an axis differ by at most
\* 1; the written canvas is 432x432 with the image placed at left, top.
C12_Centered ==
  HasCentered =>
    /\ left = (432 - scaledWidth + 1) \div 2
    /\ top = (432 - scaledHeight + 1) \div 2
    /\ 0 <= left /\ left + scaledWidth <= 432
    /\ 0 <= top /\ top + scaledHeight <= 432
    /\ 84 <= left /\ left + scaledWidth <= 348
    /\ 84 <= top /\ top + scaledHeight <= 348
    /\ Abs(left - (432 - left - scaledWidth)) <= 1
    /\ Abs(top - (432 - top - scaledHeight)) <= 1
    /\ ppc = "done" =>
         /\ padded.width = 432
         /\ padded.height = 432
         /\ padded.placed = [left |-> left, top |-> top,
                             width |-> scaledWidth, height |-> scaledHeight]

\* an image with an odd scaled height, whose margins cannot be equal, was
\* written
C12_Witness ==
  /\ ppc = "done"
  /\ scaledHeight % 2 = 1
  /\ scaledWidth = 264
  /\ top + scaledHeight + top = 432 + 1

C30_ScaledAtLeastOne ==
  HasScaled => (scaledWidth >= 1 /\ scaledHeight >= 1)

----------------------------------------------------------------------------
(* Properties of main and convertIcon                                      *)

\* the operations of the six steps of convertIcon, in the order of the steps
StageOps(n) ==
  CASE n = 1 -> {"exportFull"}
    [] n = 2 -> {"writeBackgroundJson"}
    [] n = 3 -> {"exportBackground"}
    [] n = 4 -> {"extractForeground"}
    [] n = 5 -> {"prepareFull", "prepareBackground", "prepareForeground"}
    [] n = 6 -> {"mkdirAnydpi", "mkdirDrawable", "mkdirMipmap", "copyFull",
                 "copyForeground", "backgroundDrawable", "adaptiveIconXml"}

\* an operation started only after every operation of the step before it
\* had completed successfully, and nothing started after a failure
StepsInOrder ==
  /\ \A k \in 1..Len(trace), n \in 2..6 :
       trace[k].op \in StageOps(n) =>
         \A o \in StageOps(n - 1) :
           \E j \in 1..(k - 1) : trace[j].op = o /\ trace[j].ok
  /\ \A j, k \in 1..Len(trace) : trace[j].op = trace[k].op => j = k
  /\ \A k \in 1..(Len(trace) - 1) : trace[k].ok

SomeStepFailed == \E k \in 1..Len(trace) : ~trace[k].ok

\* C14 as the specification states it: the steps run in order, each after
\* the success of the one before, and if any step fails no later step runs
\* and no Android resource is created.
C14_StepsAsStated ==
  /\ StepsInOrder
  /\ SomeStepFailed => created \cap AndroidResources = {}

\* C14, amended: the steps run in order, each after the success of the one
\* before, and no step runs after a failure; if a step before the creation
\* of the Android resources fails, no Android resource is created, and if
\* the creation fails part-way, only its last operation has failed.
C14_StepsInOrder ==
  /\ StepsInOrder
  /\ (\E k \in 1..Len(trace) : ~trace[k].ok /\ trace[k].op \notin StageOps(6))
       => created \cap AndroidResources = {}
  /\ created \cap AndroidResources # {} =>
       \A n \in 1..5 : \A o \in StageOps(n) :
         \E j \in 1..Len(trace) : trace[j].op = o /\ trace[j].ok

\* the export of the background failed after the full icon was exported
\* and the background-only icon.json written; the process has ended
C14_Witness ==
  /\ mpc = "exited"
  /\ Len(trace) > 2
  /\ trace[Len(trace)] = [op |-> "exportBackground", ok |-> FALSE]
  /\ trace[Len(trace) - 1] = [op |-> "writeBackgroundJson", ok |-> TRUE]
  /\ created \cap AndroidResources = {}

\* the three checks of main, in the order of the code
MainChecks == <<"accessIconFolder", "accessIconJson", "verifyIctoolExists">>

\* C15: without arguments main prints the usage text and exits with status
\* 1 and no file operation is ever started; with arguments every operation
\* of convertIcon comes after the successful checks of the icon folder, its
\* icon.json and ictool, in that order, and a failed check or conversion
\* ends the process with status 1.
C15_EntryPoint ==
  /\ Len(args) = 0 =>
       /\ trace = <<>>
       /\ created = {}
       /\ mpc = "exited" => (usagePrinted /\ exitCode = 1)
  /\ Len(args) # 0 =>
       /\ ~usagePrinted
       /\ \A k \in 1..Len(trace) :
            IF k <= 3 THEN trace[k].op = MainChecks[k]
            ELSE /\ trace[k].op \notin {MainChecks[c] : c \in 1..3}
                 /\ \A c \in 1..3 : trace[c].ok
       /\ (mpc = "exited" /\ SomeStepFailed) => exitCode = 1
       /\ (mpc = "exited" /\ exitCode = 0) =>
            (Len(trace) > 3 /\ \A k \in 1..Len(trace) : trace[k].ok)
  /\ exitCode \in {Running, 0, 1}
  /\ exitCode # Running <=> mpc = "exited"

\* ictool was not found after the icon folder and its icon.json were, and
\* the process has ended with status 1
C15_Witness ==
  /\ mpc = "exited"
  /\ exitCode = 1
  /\ Len(trace) = 3
  /\ trace[1].ok /\ trace[2].ok /\ ~trace[3].ok

\* C16: when the output-dir argument is omitted, the output directory is
\* the directory android inside the icon folder given as first argument.
C16_DefaultOutputDir ==
  (mpc # "main" /\ Len(args) = 1) =>
     outputDir = iconFolder \o <<Dir("android")>>

\* C25: createBackgroundOnlyJson gives a descriptor with no groups and
\* with every other property as in its input; the descriptor read from the
\* icon folder stays as it is when the background-only one is made and
\* written; every icon.json that is written goes to the temporary icon
\* folder, which is not the icon folder, and holds the background-only
\* descriptor.
C25_BackgroundOnlyJson ==
  /\ [](/\ \A d \in IconDatas :
             /\ createBackgroundOnlyJson(d).groups = 0
             /\ DOMAIN createBackgroundOnlyJson(d) = DOMAIN d
             /\ \A f \in DOMAIN d \ {"groups"} :
                  createBackgroundOnlyJson(d)[f] = d[f]
        /\ \A w \in jsonWrites :
             /\ w.folder = TempIconFolder(iconFolder)
             /\ w.folder # iconFolder
             /\ w.data.groups = 0
             /\ \A f \in DOMAIN originalIconData \ {"groups"} :
                  w.data[f] = originalIconData[f])
  /\ [][mpc = "writeBackgroundJson" => originalIconData' = originalIconData]_vars

\* the background-only descriptor of an icon with two groups and an sRGB
\* fill was written
C25_Witness ==
  /\ jsonWrites # {}
  /\ originalIconData.read
  /\ originalIconData.groups = 2
  /\ originalIconData.fill = "srgb"

\* C27: once convertIcon has created its temporary directory, the directory
\* is gone when the run has ended, whether the conversion succeeded or a
\* step threw.
C27_TempDirRemoved ==
  mpc = "exited" => "tempDir" \notin created

----------------------------------------------------------------------------
(* Properties of exportImage                                               *)

\* the 'close' and 'error' events so far, in their order
EndEvents == SelectSeq(events, LAMBDA e : e.type # "data")

\* the chunks of the 'data' events among the first n events
RECURSIVE DataAmong(_)
DataAmong(n) ==
  IF n = 0 THEN <<>>
  ELSE IF events[n].type = "data" THEN Append(DataAmong(n - 1), events[n].chunk)
       ELSE DataAmong(n - 1)

\* the position of the first 'close' or 'error' event
FirstEnd == CHOOSE n \in 1..Len(events) :
              /\ events[n].type # "data"
              /\ \A k \in 1..(n - 1) : events[k].type = "data"

\* a settled promise keeps its state and its reason
SettledStays ==
  promise \in {"fulfilled", "rejected"}
    => (promise' = promise /\ reason' = reason)

\* C26: the promise of exportImage is pending until the first 'close' or
\* 'error' event and settled by that event alone: fulfilled if it is a
\* close with code 0, rejected with the code and the stderr text received
\* before it if it is a close with another code, rejected with the spawn
\* error if it is an error; it changes state at most once and no later
\* event changes its outcome.
C26_SettlesOnce ==
  /\ [](/\ settlements <= 1
        /\ promise = "none" <=> xpc = "start"
        /\ xpc = "listening" =>
             IF EndEvents = <<>> THEN promise = "pending" /\ reason = NoReason
             ELSE /\ settlements = 1
                  /\ EndEvents[1].type = "close" /\ EndEvents[1].code = 0
                       => promise = "fulfilled"
                  /\ EndEvents[1].type = "close" /\ EndEvents[1].code # 0
                       => /\ promise = "rejected"
                          /\ reason =
                               [kind |-> "code", code |-> EndEvents[1].code,
                                stderr |-> DataAmong(FirstEnd)]
                  /\ EndEvents[1].type = "error"
                       => /\ promise = "rejected"
                          /\ reason.kind = "spawn"
                  /\ promise = "fulfilled"
                       => (EndEvents[1].type = "close" /\ EndEvents[1].code = 0))
  /\ [][SettledStays]_vars

\* ictool could not be spawned: after a chunk of stderr the 'error' event
\* came, then 'close' with a negative code and another chunk; the promise
\* is rejected with the spawn error
C26_Witness ==
  /\ Len(events) = 4
  /\ events[1].type = "data"
  /\ events[2].type = "error"
  /\ events[3].type = "close" /\ events[3].code = -2
  /\ events[4].type = "data"
  /\ promise = "rejected"
  /\ reason.kind = "spawn"

----------------------------------------------------------------------------
(* Properties of generateBackgroundDrawableFromIcon                        *)

\* the entries of fill-specializations with neither appearance nor idiom
DefaultEntries ==
  { k \in 1..Len(icon.list) :
      /\ icon.specializations
      /\ icon.list[k].appearance = ""
      /\ icon.list[k].idiom = "" }

\* C28: once generateBackgroundDrawableFromIcon has chosen its colours, the
\* fill it used is the value of a fill-specializations entry with neither
\* appearance nor idiom when there is one, else the direct fill property;
\* 'automatic', 'none' and 'system-light' give white for top and bottom,
\* 'system-dark' black for both, a solid fill its parsed colour for both, a
\* linear-gradient its first colour as top and its second as bottom, an
\* automatic-gradient its parsed colour as bottom and the sampled colour as
\* top; the hex strings and the drawable written are those of these colours.
C28_FillToColours ==
  dpc \in {"hex", "write", "returned"} =>
    /\ IF DefaultEntries # {}
         THEN \E k \in DefaultEntries : fill = icon.list[k].value
         ELSE fill = icon.fill
    /\ (fill.type = "string"
        /\ fill.text \in {"automatic", "none", "system-light"})
         => /\ topColor = Colour(Num(255), Num(255), Num(255))
            /\ bottomColor = Colour(Num(255), Num(255), Num(255))
    /\ (fill.type = "string" /\ fill.text = "system-dark")
         => /\ topColor = Colour(Num(0), Num(0), Num(0))
            /\ bottomColor = Colour(Num(0), Num(0), Num(0))
    /\ (fill.type = "object" /\ fill.key = "solid")
         => /\ topColor = parseColorString(fill.colour)
            /\ bottomColor = parseColorString(fill.colour)
    /\ (fill.type = "object" /\ fill.key = "linear-gradient"
        /\ Len(fill.list) >= 2)
         => /\ topColor = parseColorString(fill.list[1])
            /\ bottomColor = parseColorString(fill.list[2])
    /\ (fill.type = "object" /\ fill.key = "automatic-gradient")
         => /\ bottomColor = parseColorString(fill.colour)
            /\ topColorData \in SampledColours
            /\ topColor = topColorData
    /\ dpc \in {"write", "returned"}
         => /\ topColorHex = rgbToHex(topColor.r, topColor.g, topColor.b)
            /\ bottomColorHex =
                 rgbToHex(bottomColor.r, bottomColor.g, bottomColor.b)
    /\ dpc = "returned"
         => written = << [top |-> topColorHex, bottom |-> bottomColorHex] >>

\* an automatic-gradient found in the default entry of fill-specializations,
\* while the direct fill is another one: the drawable written has the
\* sampled colour (18, 52, 86) as its top and the grey of
\* 'extended-gray:0.5,1' as its bottom
C28_Witness ==
  /\ dpc = "returned"
  /\ DefaultEntries # {}
  /\ icon.fill # fill
  /\ fill.type = "object"
  /\ fill.key = "automatic-gradient"
  /\ written = << [top |-> <<"#", "1", "2", "3", "4", "5", "6">>,
                   bottom |-> <<"#", "8", "0", "8", "0", "8", "0">>] >>

\* C29: for every fill, generateBackgroundDrawableFromIcon either throws one
\* of its own descriptive errors before anything is written, or reaches the
\* hex conversion with both the top and the bottom colour defined; a
\* linear-gradient list with fewer than two colours included.
C29_ErrorOrBothColours ==
  /\ dpc = "hex" => (topColor.def /\ bottomColor.def)
  /\ (dpc = "thrown"
      /\ rejection \notin {"metadata", "samplePixelColor", "writeFile"})
       => /\ written = <<>>
          /\ rejection \in
               {"No fill found in icon.json",
                "Unsupported fill string value",
                "Unsupported fill type",
                "Failed to parse linear-gradient colors from icon.json",
                "Failed to parse automatic-gradient bottom color from icon.json",
                "Failed to parse solid color from icon.json"}

====
